---- MODULE Spec2Model ----
(***************************************************************************)
(* Memory-coherence engine of vulkan_stdpar::unified_vector: the           *)
(* versioning_engine (state tag, dirty-range tracker, host storage and     *)
(* lazily allocated device mirror), the unified_vector operations built on *)
(* it, and the bulk device operations of parallel_invoker.hpp, in the      *)
(* build with VULKAN_STDPAR_USE_SYCL defined.                              *)
(*                                                                         *)
(* Indices are 0-based as in the source: host_data_ and device_buffer_ are *)
(* functions over 0..n-1.  The contents of freshly allocated storage       *)
(* (std::vector::reserve on a vector of size 0, sycl::buffer<T>(n)) are    *)
(* indeterminate: every operator that allocates takes the contents the     *)
(* allocation happens to hold as a parameter, and the actions choose it.   *)
(***************************************************************************)
EXTENDS Integers, Sequences, FiniteSets, TLC

\* Largest capacity a container reaches in Spec and SpecEngine.
MaxCap == 2

\* Largest capacity a container reaches by doubling in SpecDoubling.
GrowthCap == 4

\* Capacity of the buffer of SpecTracker (the scenarios mark ranges up to
\* [6,9), which a buffer of capacity 9 holds).
TrackerCap == 9

\* Element values (the element type T, cut down to two values).
Values == {0, 1}

\* The functor of the bulk operations: a trivially copyable unary function.
Func(x) == IF x = 0 THEN 1 ELSE 0

\* The containers of the program.
Cont == {1, 2}

VARIABLES
    vecs,   \* vecs[c]: the unified_vector c, [engine_, size_]
    ref,    \* ref[c]: a plain host-only array taken through the same operations
    op,     \* the operation that was performed last
    thr,    \* the threads using container 1: where each is in its call, who
            \* holds the engine's mutex_ exclusively, and what has been observed
    err,    \* how the backend failed in the last operation and what the
            \* operation raised to its caller
    ret     \* the value the last operation returned, as a set of at most one

vars == <<vecs, ref, op, thr, err, ret>>

\* The operation returned no value.
NoValue == {}

\* The backend did not fail and the operation returned normally.
NoError == [fault |-> "none", raised |-> "none"]

\* The threads of the program that use container 1 concurrently.
Threads == {1, 2}

\* No call is in progress: every thread is between calls and mutex_ is free.
\* x: the value thread 1 is writing; acc: the accesses to the engine's storage
\* made in the last step outside any lock; expect: the value of the last
\* completed proxy write to index 0; seen: expect when the read in progress
\* began; got: the value the last step read at index 0.
NoThreads ==
    [pc |-> [t \in Threads |-> "idle"], writer |-> 0, x |-> 0, acc |-> {},
     expect |-> {}, seen |-> {}, got |-> {}]

Min2(a, b) == IF a < b THEN a ELSE b
Max2(a, b) == IF a > b THEN a ELSE b

\* Storage of n elements holding whatever g holds there.
Uninit(n, g) == [i \in 0..(n - 1) |-> g[i]]

\* The contents a new allocation of indices lo..hi-1 may hold, and the contents
\* passed where nothing is allocated.
Garbage(lo, hi) == [lo..(hi - 1) -> Values]
NoGarbage == [i \in 0..Max2(MaxCap, TrackerCap) |-> 0]

-----------------------------------------------------------------------------
(* dirty_range *)

dirty_range(start, end) == [start |-> start, end |-> end]

overlaps(a, b) == a.start < b.end /\ b.start < a.end

adjacent(a, b) == a.end = b.start \/ b.end = a.start

mergeMut(a, b) == dirty_range(a.start, Max2(a.end, b.end))
merge(a, b) == dirty_range(Min2(a.start, b.start), Max2(a.end, b.end))

range_size(r) == r.end - r.start

range_empty(r) == r.start >= r.end

contains(r, index) == index >= r.start /\ index < r.end

\* The indices covered by a vector of ranges.
Covered(rs) == {i \in 0..Max2(MaxCap, TrackerCap) : \E k \in 1..Len(rs) : contains(rs[k], i)}

-----------------------------------------------------------------------------
(* versioning_engine *)

\* The calls an operation has made so far: copy commands submitted to the
\* backend, device buffers allocated, ranges erased from dirty_ranges_ by the
\* pairwise pass, and the states in which mark_host_dirty and
\* mark_device_dirty were entered.
NoLog == [copies |-> 0, allocs |-> 0, erased |-> 0, mhd_at |-> {}, mdd_at |-> {}]

\* marked: the indices passed to mark_host_dirty since dirty_ranges_ was last
\* cleared (kept beside the engine's own fields, never read by its code).

\* A constructor that creates the device buffer at once.
versioning_engineMut(capacity, g) ==
    [state_ |-> "clean",
     dirty_ranges_ |-> << >>,
     host_data_ |-> Uninit(capacity, g),
     device_buffer_ |-> Uninit(capacity, g),
     capacity_ |-> capacity,
     device_allocated_ |-> TRUE,
     marked |-> {},
     log |-> NoLog]

versioning_engine(capacity, g) ==
    [state_ |-> "clean",
     dirty_ranges_ |-> << >>,
     host_data_ |-> Uninit(capacity, g),
     device_buffer_ |-> << >>,
     capacity_ |-> capacity,
     device_allocated_ |-> FALSE,
     marked |-> {},
     log |-> NoLog]

\* First loop of mark_host_dirty_impl: merge into the first range the new one
\* overlaps or touches, else append.
MergeFirst(rs, new_range) ==
    LET hit == {k \in 1..Len(rs) : overlaps(rs[k], new_range) \/ adjacent(rs[k], new_range)}
    IN  IF hit = {} THEN Append(rs, new_range)
        ELSE LET k == CHOOSE m \in hit : \A n \in hit : m <= n
             IN  [rs EXCEPT ![k] = merge(rs[k], new_range)]

\* vector::erase(begin() + j), j 1-based here.
EraseAt(rs, j) == [k \in 1..(Len(rs) - 1) |-> IF k < j THEN rs[k] ELSE rs[k + 1]]

\* Second loop of mark_host_dirty_impl: the pairwise pass, at (i, j).
RECURSIVE MergePass(_, _, _)
MergePassMut(rs, i, j) == rs
MergePass(rs, i, j) ==
    IF i > Len(rs) THEN rs
    ELSE IF j > Len(rs) THEN MergePass(rs, i + 1, i + 2)
    ELSE IF overlaps(rs[i], rs[j]) \/ adjacent(rs[i], rs[j])
         THEN MergePass(EraseAt([rs EXCEPT ![i] = merge(rs[i], rs[j])], j), i, j)
         ELSE MergePass(rs, i, j + 1)

\* mark_host_dirty that stores host_dirty whatever the state was.
mark_host_dirty_implMut(e, start, end) ==
    [e EXCEPT !.log.mhd_at = @ \cup {e.state_},
              !.marked = @ \cup start..(end - 1),
              !.dirty_ranges_ = IF start = end THEN @
                                ELSE MergePass(MergeFirst(@, dirty_range(start, end)), 1, 2),
              !.state_ = "host_dirty"]

mark_host_dirty_impl(e, start, end) ==
    LET e0 == [e EXCEPT !.log.mhd_at = @ \cup {e.state_},
                        !.marked = @ \cup start..(end - 1)]
        first == MergeFirst(e.dirty_ranges_, dirty_range(start, end))
        second == MergePass(first, 1, 2)
    IN  IF start = end THEN e0
        ELSE [e0 EXCEPT
                !.dirty_ranges_ = second,
                !.log.erased = @ + (Len(first) - Len(second)),
                !.state_ = IF @ = "clean" THEN "host_dirty" ELSE @]

mark_device_dirty_implMut(e) ==
    [e EXCEPT !.log.mdd_at = @ \cup {e.state_},
              !.state_ = "device_dirty"]
mark_device_dirty_impl(e) ==
    [e EXCEPT !.log.mdd_at = @ \cup {e.state_},
              !.dirty_ranges_ = << >>,
              !.marked = {},
              !.state_ = "device_dirty"]

\* ensure_device_allocated without the second check of device_allocated_.
ensure_device_allocatedMut(e, g) ==
    [e EXCEPT !.device_buffer_ = Uninit(e.capacity_, g),
              !.device_allocated_ = TRUE,
              !.log.allocs = @ + 1]

\* g: what the new device buffer happens to hold.
ensure_device_allocated(e, g) ==
    IF ~e.device_allocated_
    THEN [e EXCEPT !.device_buffer_ = Uninit(e.capacity_, g),
                   !.device_allocated_ = TRUE,
                   !.log.allocs = @ + 1]
    ELSE e

\* The non-empty ranges: one copy command each.
NonEmptyRanges(rs) == {k \in 1..Len(rs) : ~range_empty(rs[k])}

\* A sync that transfers the whole host storage in one copy.
sync_to_device_copyMut(e, g) ==
    LET a == ensure_device_allocated(e, g)
    IN  [a EXCEPT
            !.device_buffer_ = [i \in DOMAIN @ |-> a.host_data_[i]],
            !.log.copies = @ + 1,
            !.dirty_ranges_ = << >>,
            !.marked = {},
            !.state_ = "clean"]

\* sync_to_device_impl past its first line: allocate, copy each tracked range,
\* wait, clear the tracker, set Clean.
sync_to_device_copy(e, g) ==
    LET a == ensure_device_allocated(e, g)
    IN  [a EXCEPT
            !.device_buffer_ =
                [i \in DOMAIN @ |->
                    IF \E k \in NonEmptyRanges(a.dirty_ranges_) :
                           contains(a.dirty_ranges_[k], i)
                    THEN a.host_data_[i] ELSE @[i]],
            !.log.copies = @ + Cardinality(NonEmptyRanges(a.dirty_ranges_)),
            !.dirty_ranges_ = << >>,
            !.marked = {},
            !.state_ = "clean"]

sync_to_device_implMut(e, g) == sync_to_device_copy(e, g)
sync_to_device_impl(e, g) ==
    IF e.state_ # "host_dirty" THEN e ELSE sync_to_device_copy(e, g)

\* sync_to_host_impl past its first line: copy the entire device buffer to
\* host, wait, set Clean; nothing when no device buffer is allocated.
sync_to_host_copy(e) ==
    IF ~e.device_allocated_ THEN e
    ELSE [e EXCEPT
            !.host_data_ = [i \in DOMAIN @ |->
                               IF i \in DOMAIN e.device_buffer_
                               THEN e.device_buffer_[i] ELSE @[i]],
            !.log.copies = @ + 1,
            !.state_ = "clean"]

sync_to_host_implMut(e) == sync_to_host_copy(e)
sync_to_host_impl(e) ==
    IF e.state_ # "device_dirty" THEN e ELSE sync_to_host_copy(e)

\* resize_impl that allocates the larger device buffer and never copies the
\* old contents into it.
resize_implMut(e, new_capacity, gh, gd) ==
    IF new_capacity <= e.capacity_ THEN e
    ELSE [e EXCEPT
            !.host_data_ = Uninit(new_capacity, gh),
            !.device_buffer_ =
                IF ~e.device_allocated_ THEN @
                ELSE [i \in 0..(new_capacity - 1) |->
                         IF i < e.capacity_ THEN 0 ELSE gd[i]],
            !.capacity_ = new_capacity]

\* gh, gd: what the new host storage and the new device buffer happen to hold.
resize_impl(e, new_capacity, gh, gd) ==
    IF new_capacity <= e.capacity_ THEN e
    ELSE [e EXCEPT
            !.host_data_ = Uninit(new_capacity, gh),
            !.device_buffer_ =
                IF ~e.device_allocated_ THEN @
                ELSE IF e.state_ = "device_dirty"
                     THEN [i \in 0..(new_capacity - 1) |->
                              IF i < e.capacity_ THEN e.device_buffer_[i] ELSE gd[i]]
                     ELSE Uninit(new_capacity, gd),
            !.log.allocs = IF e.device_allocated_ THEN @ + 1 ELSE @,
            !.log.copies = IF e.device_allocated_ /\ e.state_ = "device_dirty"
                           THEN @ + 1 ELSE @,
            !.capacity_ = new_capacity]

clear_dirty_ranges(e) == [e EXCEPT !.dirty_ranges_ = << >>, !.marked = {}]

get_device_buffer(e, g) == ensure_device_allocated(e, g)

\* A store through the pointer host_data() returns.
host_store(e, index, value) == [e EXCEPT !.host_data_[index] = value]

\* A kernel over [start, start + count) of the device buffer.
kernel(e, start, count) ==
    [e EXCEPT !.device_buffer_ =
        [i \in DOMAIN @ |-> IF i >= start /\ i < start + count THEN Func(@[i]) ELSE @[i]]]

-----------------------------------------------------------------------------
(* unified_vector: construction *)

\* unified_vector(std::initializer_list<T> init), init a function over 0..n-1.
unified_vector(init) ==
    LET n == Cardinality(DOMAIN init)
    IN  [engine_ |-> [versioning_engine(n, NoGarbage) EXCEPT !.host_data_ = init],
         size_ |-> n]

\* The initializer lists of up to n elements.
Lists(n) == UNION {[0..(k - 1) -> Values] : k \in 0..n}

\* The engine of container c, and the state before an operation starts.
Engine(c) == vecs[c].engine_
Begin(v) == [v EXCEPT !.engine_.log = NoLog]

\* Container 1 is constructed from any list, container 2 is empty.
InitOne ==
    /\ \E l \in Lists(MaxCap) :
          vecs = [c \in Cont |-> IF c = 1 THEN unified_vector(l) ELSE unified_vector(<< >>)]
    /\ ref = [c \in Cont |-> vecs[c].engine_.host_data_]
    /\ thr = NoThreads
    /\ err = NoError
    /\ ret = NoValue
    /\ op = "construct"

\* What a device buffer allocated by ensure_device_allocated(e) may hold.
AllocGarbage(e) ==
    IF e.device_allocated_ THEN {NoGarbage} ELSE Garbage(0, e.capacity_)

\* What the host storage and the device buffer allocated by resize_impl(e, n)
\* may hold.
HostGarbage(e, n) ==
    IF n <= e.capacity_ THEN {NoGarbage} ELSE Garbage(0, n)
DeviceGarbage(e, n) ==
    IF n <= e.capacity_ \/ ~e.device_allocated_ THEN {NoGarbage}
    ELSE IF e.state_ = "device_dirty" THEN Garbage(e.capacity_, n)
    ELSE Garbage(0, n)

-----------------------------------------------------------------------------
(* unified_vector: operations.  Each takes the vector v and gives the vector *)
(* after the call; gh and gd are what a new host storage and a new device    *)
(* buffer happen to hold, should the call allocate one.                      *)

capacity(v) == v.engine_.capacity_

reserve(v, new_cap, gh, gd) ==
    IF new_cap > capacity(v)
    THEN [v EXCEPT !.engine_ = resize_impl(@, new_cap, gh, gd)]
    ELSE v

\* Growth by one element.
GrowCapMut(v) == capacity(v) + 1

\* capacity() == 0 ? 1 : capacity() * 2
GrowCap(v) == IF capacity(v) = 0 THEN 1 ELSE capacity(v) * 2

\* at_impl that reads the host storage as it is.
at_implMut(v, index) == [vec |-> v, value |-> v.engine_.host_data_[index]]

\* const T& at_impl(index): the vector after the call and the value returned.
at_impl(v, index) ==
    LET e == sync_to_host_impl(v.engine_)
    IN  [vec |-> [v EXCEPT !.engine_ = e], value |-> e.host_data_[index]]

\* set_impl without the sync_to_host.
set_implMut(v, index, value) ==
    [v EXCEPT !.engine_ =
        mark_host_dirty_impl(host_store(@, index, value), index, index + 1)]

set_impl(v, index, value) ==
    LET a == sync_to_host_impl(v.engine_)
        b == host_store(a, index, value)
    IN  [v EXCEPT !.engine_ = mark_host_dirty_impl(b, index, index + 1)]

\* unified_reference::operator++(): read, then set_impl of the new value.
proxy_increment(v, index) ==
    LET r == at_impl(v, index)
    IN  set_impl(r.vec, index, Func(r.value))

\* unified_reference::swap(other), both proxies into v: read this, assign
\* other's value to this, assign the value read to other.
proxy_swap(v, index, other) ==
    LET t == at_impl(v, index)
        o == at_impl(t.vec, other)
        a == set_impl(o.vec, index, o.value)
    IN  set_impl(a, other, t.value)

\* const T* data(): sync_to_host, then the pointer.
data(v) == [v EXCEPT !.engine_ = sync_to_host_impl(@)]

push_back(v, value, gh, gd) ==
    LET a == IF v.size_ >= capacity(v) THEN reserve(v, GrowCap(v), gh, gd) ELSE v
        b == host_store(a.engine_, a.size_, value)
    IN  [a EXCEPT !.engine_ = mark_host_dirty_impl(b, a.size_, a.size_ + 1),
                  !.size_ = @ + 1]

emplace_back(v, value, gh, gd) ==
    LET a == IF v.size_ >= capacity(v) THEN reserve(v, GrowCap(v), gh, gd) ELSE v
        b == host_store(a.engine_, a.size_, value)
    IN  [a EXCEPT !.engine_ = mark_host_dirty_impl(b, a.size_, a.size_ + 1),
                  !.size_ = @ + 1]

\* pop_back without the test for the empty container.
pop_backMut(v) == [v EXCEPT !.size_ = @ - 1]
pop_back(v) == IF v.size_ > 0 THEN [v EXCEPT !.size_ = @ - 1] ELSE v

clear(v) == [v EXCEPT !.size_ = 0, !.engine_ = clear_dirty_ranges(@)]

\* shrink_to_fit that gives back the unused capacity.
shrink_to_fitMut(v) ==
    IF v.size_ < capacity(v)
    THEN [v EXCEPT !.engine_.capacity_ = v.size_,
                   !.engine_.host_data_ = [i \in 0..(v.size_ - 1) |-> @[i]]]
    ELSE v
shrink_to_fit(v) ==
    IF v.size_ < capacity(v)
    THEN [v EXCEPT !.engine_ = resize_impl(@, v.size_, NoGarbage, NoGarbage)]
    ELSE v

insert(v, insert_pos, value, gh, gd) ==
    LET a == IF v.size_ >= capacity(v) THEN reserve(v, GrowCap(v), gh, gd) ELSE v
        b == sync_to_host_impl(a.engine_)
        c == [b EXCEPT !.host_data_ =
                [i \in DOMAIN @ |->
                    IF i = insert_pos THEN value
                    ELSE IF i > insert_pos /\ i <= a.size_ THEN @[i - 1]
                    ELSE @[i]]]
    IN  [a EXCEPT !.engine_ = mark_host_dirty_impl(c, insert_pos, a.size_ + 1),
                  !.size_ = @ + 1]

\* erase that marks up to the old size.
eraseMut(v, erase_pos) ==
    LET a == sync_to_host_impl(v.engine_)
        b == [a EXCEPT !.host_data_ =
                [i \in DOMAIN @ |->
                    IF i >= erase_pos /\ i < v.size_ - 1 THEN @[i + 1] ELSE @[i]]]
    IN  [v EXCEPT !.engine_ = mark_host_dirty_impl(b, erase_pos, v.size_),
                  !.size_ = @ - 1]

erase(v, erase_pos) ==
    LET a == sync_to_host_impl(v.engine_)
        b == [a EXCEPT !.host_data_ =
                [i \in DOMAIN @ |->
                    IF i >= erase_pos /\ i < v.size_ - 1 THEN @[i + 1] ELSE @[i]]]
    IN  [v EXCEPT !.engine_ = mark_host_dirty_impl(b, erase_pos, v.size_ - 1),
                  !.size_ = @ - 1]

erase_range(v, first_pos, last_pos) ==
    LET count == last_pos - first_pos
        a == sync_to_host_impl(v.engine_)
        b == [a EXCEPT !.host_data_ =
                [i \in DOMAIN @ |->
                    IF i >= first_pos /\ i < v.size_ - count THEN @[i + count] ELSE @[i]]]
    IN  IF count = 0 THEN v
        ELSE [v EXCEPT !.engine_ = mark_host_dirty_impl(b, first_pos, v.size_ - count),
                       !.size_ = @ - count]

\* std::fill_n(data_impl() + from, to - from, value)
Fill(e, from, to, value) ==
    [e EXCEPT !.host_data_ = [i \in DOMAIN @ |-> IF i >= from /\ i < to THEN value ELSE @[i]]]

\* resize that sets the size without reserving room for it.
resizeMut(v, count, value, gh, gd) ==
    IF count > v.size_
    THEN [v EXCEPT !.engine_ = mark_host_dirty_impl(@, v.size_, count), !.size_ = count]
    ELSE [v EXCEPT !.size_ = count]

resize(v, count, value, gh, gd) ==
    LET a == IF count > capacity(v) THEN reserve(v, count, gh, gd) ELSE v
        b == IF count > a.size_
             THEN mark_host_dirty_impl(Fill(a.engine_, a.size_, count, value), a.size_, count)
             ELSE a.engine_
    IN  [a EXCEPT !.engine_ = b, !.size_ = count]

assign(v, count, value, gh, gd) ==
    LET a == IF count > capacity(v) THEN resize_impl(v.engine_, count, gh, gd) ELSE v.engine_
        b == Fill(a, 0, count, value)
    IN  [v EXCEPT !.engine_ = mark_host_dirty_impl(b, 0, count), !.size_ = count]

prefetch_to_device(v, g) == [v EXCEPT !.engine_ = sync_to_device_impl(@, g)]

-----------------------------------------------------------------------------
(* parallel_invoker: the bulk operations *)

\* g: what the device buffer holds if this call allocates it.
execute_kernel(v, start, count, g) ==
    LET a == sync_to_device_impl(v.engine_, g)
        b == get_device_buffer(a, g)
        c == kernel(b, start, count)
    IN  [v EXCEPT !.engine_ = mark_device_dirty_impl(c)]

for_each(v, first, last, g) ==
    IF last - first = 0 THEN v ELSE execute_kernel(v, first, last - first, g)

\* execute_transform on the vectors vs[cin] and vs[cout]: out_acc[i] =
\* func(in_acc[i]) for i in [start, start + count).
execute_transform(vs, cin, cout, start, count, gin, gout) ==
    LET a == [vs EXCEPT ![cin].engine_ = sync_to_device_impl(@, gin)]
        b == [a EXCEPT ![cin].engine_ = get_device_buffer(@, gin)]
        c == [b EXCEPT ![cout].engine_ = get_device_buffer(@, gout)]
        d == [c EXCEPT ![cout].engine_.device_buffer_ =
                [i \in DOMAIN @ |->
                    IF i >= start /\ i < start + count
                    THEN Func(c[cin].engine_.device_buffer_[i]) ELSE @[i]]]
    IN  [d EXCEPT ![cout].engine_ = mark_device_dirty_impl(@)]

transform(vs, cin, cout, first, last, d_first, gh, gd, gin, gout) ==
    LET count == last - first
        a == IF vs[cout].size_ < d_first + count
             THEN [vs EXCEPT ![cout] = resize(@, d_first + count, 0, gh, gd)]
             ELSE vs
    IN  IF count = 0 THEN vs
        ELSE execute_transform(a, cin, cout, first, count, gin, gout)

\* sort(policy, first, last) on values 0 and 1: the zeros first.
Sorted(h, start, count) ==
    LET zeros == Cardinality({i \in start..(start + count - 1) : h[i] = 0})
    IN  [i \in DOMAIN h |->
            IF i >= start /\ i < start + count
            THEN (IF i < start + zeros THEN 0 ELSE 1)
            ELSE h[i]]

sort(v, first, last) ==
    LET count == last - first
        a == sync_to_host_impl(v.engine_)
        b == [a EXCEPT !.host_data_ = Sorted(@, first, count)]
    IN  IF count <= 1 THEN v
        ELSE [v EXCEPT !.engine_ = mark_host_dirty_impl(b, first, first + count)]

-----------------------------------------------------------------------------
(* SpecEngine: the public operations of the engine of container 1 *)

\* The engine of container 1 becomes e by operation name.
EngineStep(name, e) ==
    /\ vecs' = [vecs EXCEPT ![1].engine_ = e]
    /\ op' = name
    /\ err' = NoError
    /\ ret' = NoValue
    /\ UNCHANGED <<ref, thr>>

E1 == Begin(vecs[1]).engine_

MarkHostDirty ==
    \E s \in 0..E1.capacity_ : \E t \in s..E1.capacity_ :
        EngineStep("mark_host_dirty", mark_host_dirty_impl(E1, s, t))

MarkDeviceDirty == EngineStep("mark_device_dirty", mark_device_dirty_impl(E1))

SyncToDevice ==
    \E g \in (IF E1.state_ = "host_dirty" THEN AllocGarbage(E1) ELSE {NoGarbage}) :
        EngineStep("sync_to_device", sync_to_device_impl(E1, g))

SyncToHost == EngineStep("sync_to_host", sync_to_host_impl(E1))

EngineResize ==
    \E n \in 0..MaxCap : \E gh \in HostGarbage(E1, n) : \E gd \in DeviceGarbage(E1, n) :
        EngineStep("engine_resize", resize_impl(E1, n, gh, gd))

ClearDirtyRanges == EngineStep("clear_dirty_ranges", clear_dirty_ranges(E1))

GetDeviceBuffer == \E g \in AllocGarbage(E1) : EngineStep("get_device_buffer", get_device_buffer(E1, g))

HostStore ==
    \E i \in 0..(E1.capacity_ - 1) : \E x \in Values :
        EngineStep("host_store", host_store(E1, i, x))

Kernel ==
    /\ E1.device_allocated_
    /\ \E s \in 0..(E1.capacity_ - 1) : \E n \in 1..(E1.capacity_ - s) :
        EngineStep("kernel", kernel(E1, s, n))

\* sync_to_device() immediately followed by sync_to_host().
RoundTrip ==
    \E g \in (IF E1.state_ = "host_dirty" THEN AllocGarbage(E1) ELSE {NoGarbage}) :
        EngineStep("round_trip", sync_to_host_impl(sync_to_device_impl(E1, g)))

NextEngine ==
    \/ MarkHostDirty
    \/ MarkDeviceDirty
    \/ SyncToDevice
    \/ SyncToHost
    \/ EngineResize
    \/ ClearDirtyRanges
    \/ GetDeviceBuffer
    \/ HostStore
    \/ Kernel
    \/ RoundTrip

SpecEngine == InitOne /\ [][NextEngine]_vars

-----------------------------------------------------------------------------
(* SpecTracker: the dirty-range tracker of a buffer of capacity TrackerCap *)

\* unified_vector<T> v(TrackerCap, 0), driven through get_engine().
InitTracker ==
    /\ vecs = [c \in Cont |->
                 IF c = 1 THEN unified_vector([i \in 0..(TrackerCap - 1) |-> 0])
                 ELSE unified_vector(<< >>)]
    /\ ref = [c \in Cont |-> vecs[c].engine_.host_data_]
    /\ thr = NoThreads
    /\ err = NoError
    /\ ret = NoValue
    /\ op = "construct"

NextTracker ==
    \/ MarkHostDirty
    \/ MarkDeviceDirty
    \/ ClearDirtyRanges
    \/ SyncToHost

SpecTracker == InitTracker /\ [][NextTracker]_vars

-----------------------------------------------------------------------------
(* Spec: the operations of unified_vector and the bulk operations on         *)
(* container 1, with a plain array taken through the same operations.        *)

\* A plain array is a function over 0..n-1.
Size(r) == Cardinality(DOMAIN r)

\* A step of one container that acts on every container: the engine and the
\* size shared by all instances.
VecStepMut(name, c, v, r) ==
    /\ vecs' = [k \in Cont |-> v]
    /\ ref' = [ref EXCEPT ![c] = r]
    /\ err' = NoError
    /\ ret' = NoValue
    /\ UNCHANGED thr
    /\ op' = name

\* Container c becomes v and its plain array r, by operation name.
VecStep(name, c, v, r) ==
    /\ vecs' = [vecs EXCEPT ![c] = v]
    /\ ref' = [ref EXCEPT ![c] = r]
    /\ err' = NoError
    /\ ret' = NoValue
    /\ UNCHANGED thr
    /\ op' = name

\* What the storage allocated by a growth of v to capacity n may hold.
GrowHost(v, grows, n) == IF grows THEN HostGarbage(v.engine_, n) ELSE {NoGarbage}
GrowDevice(v, grows, n) == IF grows THEN DeviceGarbage(v.engine_, n) ELSE {NoGarbage}

\* What a device buffer allocated later in the operation may hold.
AllocGarbageAny(e) ==
    IF e.device_allocated_ THEN {NoGarbage} ELSE Garbage(0, MaxCap)

Read(c) ==
    \E i \in 0..(vecs[c].size_ - 1) :
        VecStep("read", c, at_impl(Begin(vecs[c]), i).vec, ref[c])

Set(c) ==
    \E i \in 0..(vecs[c].size_ - 1) : \E x \in Values :
        VecStep("set", c, set_impl(Begin(vecs[c]), i, x), [ref[c] EXCEPT ![i] = x])

Increment(c) ==
    \E i \in 0..(vecs[c].size_ - 1) :
        VecStep("increment", c, proxy_increment(Begin(vecs[c]), i),
                [ref[c] EXCEPT ![i] = Func(@)])

\* The plain array r with x inserted at pos.
RefInsert(r, pos, x) ==
    [i \in 0..Size(r) |-> IF i < pos THEN r[i] ELSE IF i = pos THEN x ELSE r[i - 1]]

\* The plain array r without [first, last).
RefErase(r, first, last) ==
    [i \in 0..(Size(r) - (last - first) - 1) |->
        IF i < first THEN r[i] ELSE r[i + (last - first)]]

\* The plain array r resized to count, new elements x.
RefResize(r, count, x) ==
    [i \in 0..(count - 1) |-> IF i < Size(r) THEN r[i] ELSE x]

PushBack(c) ==
    LET v == Begin(vecs[c])
        grows == v.size_ >= capacity(v)
    IN  /\ grows => GrowCap(v) <= MaxCap
        /\ \E x \in Values :
           \E gh \in GrowHost(v, grows, GrowCap(v)) :
           \E gd \in GrowDevice(v, grows, GrowCap(v)) :
              VecStep("push_back", c, push_back(v, x, gh, gd),
                      RefInsert(ref[c], Size(ref[c]), x))

EmplaceBack(c) ==
    LET v == Begin(vecs[c])
        grows == v.size_ >= capacity(v)
    IN  /\ grows => GrowCap(v) <= MaxCap
        /\ \E x \in Values :
           \E gh \in GrowHost(v, grows, GrowCap(v)) :
           \E gd \in GrowDevice(v, grows, GrowCap(v)) :
              VecStep("emplace_back", c, emplace_back(v, x, gh, gd),
                      RefInsert(ref[c], Size(ref[c]), x))

PopBack(c) ==
    VecStep("pop_back", c, pop_back(Begin(vecs[c])),
            IF Size(ref[c]) > 0 THEN RefErase(ref[c], Size(ref[c]) - 1, Size(ref[c]))
            ELSE ref[c])

Clear(c) == VecStep("clear", c, clear(Begin(vecs[c])), << >>)

ShrinkToFit(c) == VecStep("shrink_to_fit", c, shrink_to_fit(Begin(vecs[c])), ref[c])

Reserve(c) ==
    LET v == Begin(vecs[c])
    IN  \E n \in 0..MaxCap :
        \E gh \in HostGarbage(v.engine_, n) : \E gd \in DeviceGarbage(v.engine_, n) :
            VecStep("reserve", c, reserve(v, n, gh, gd), ref[c])

Insert(c) ==
    LET v == Begin(vecs[c])
        grows == v.size_ >= capacity(v)
    IN  /\ grows => GrowCap(v) <= MaxCap
        /\ \E pos \in 0..v.size_ : \E x \in Values :
           \E gh \in GrowHost(v, grows, GrowCap(v)) :
           \E gd \in GrowDevice(v, grows, GrowCap(v)) :
              VecStep("insert", c, insert(v, pos, x, gh, gd), RefInsert(ref[c], pos, x))

Erase(c) ==
    LET v == Begin(vecs[c])
    IN  \E pos \in 0..(v.size_ - 1) :
            VecStep("erase", c, erase(v, pos), RefErase(ref[c], pos, pos + 1))

EraseRange(c) ==
    LET v == Begin(vecs[c])
    IN  \E first \in 0..v.size_ : \E last \in first..v.size_ :
            VecStep("erase_range", c, erase_range(v, first, last),
                    RefErase(ref[c], first, last))

Resize(c) ==
    LET v == Begin(vecs[c])
    IN  \E count \in 0..MaxCap : \E x \in Values :
        \E gh \in HostGarbage(v.engine_, count) : \E gd \in DeviceGarbage(v.engine_, count) :
            VecStep("resize", c, resize(v, count, x, gh, gd), RefResize(ref[c], count, x))

Assign(c) ==
    LET v == Begin(vecs[c])
    IN  \E count \in 0..MaxCap : \E x \in Values :
        \E gh \in HostGarbage(v.engine_, count) : \E gd \in DeviceGarbage(v.engine_, count) :
            VecStep("assign", c, assign(v, count, x, gh, gd), [i \in 0..(count - 1) |-> x])

Prefetch(c) ==
    LET v == Begin(vecs[c])
    IN  \E g \in AllocGarbage(v.engine_) :
            VecStep("prefetch_to_device", c, prefetch_to_device(v, g), ref[c])

ForEach(c) ==
    LET v == Begin(vecs[c])
    IN  \E first \in 0..v.size_ : \E last \in first..v.size_ :
        \E g \in (IF last > first THEN AllocGarbage(v.engine_) ELSE {NoGarbage}) :
            VecStep("for_each", c, for_each(v, first, last, g),
                    [i \in DOMAIN ref[c] |->
                        IF i >= first /\ i < last THEN Func(ref[c][i]) ELSE ref[c][i]])

Sort(c) ==
    LET v == Begin(vecs[c])
    IN  \E first \in 0..v.size_ : \E last \in first..v.size_ :
            VecStep("sort", c, sort(v, first, last),
                    IF last - first <= 1 THEN ref[c]
                    ELSE Sorted(ref[c], first, last - first))

\* transform(policy, first, last, d_first, func), the input range in container
\* cin and the output iterator in container cout.  The kernel writes the output
\* at the indices of the input range: the calls taken are those whose writes
\* stay inside the output buffer.
Transform(cin, cout) ==
    LET vs == [c \in Cont |-> IF c \in {cin, cout} THEN Begin(vecs[c]) ELSE vecs[c]]
    IN  \E first \in 0..vs[cin].size_ : \E last \in first..vs[cin].size_ :
        \E d_first \in 0..vs[cout].size_ :
            LET count == last - first
                n == d_first + count
                grows == count > 0 /\ vs[cout].size_ < n
                rout == IF grows THEN RefResize(ref[cout], n, 0) ELSE ref[cout]
            IN  /\ n <= MaxCap
                /\ last <= Max2(capacity(vs[cout]), n)
                /\ \E gh \in GrowHost(vs[cout], grows, n) :
                   \E gd \in GrowDevice(vs[cout], grows, n) :
                   \E gin \in (IF count > 0 THEN AllocGarbageAny(vs[cin].engine_)
                                ELSE {NoGarbage}) :
                   \E gout \in (IF count > 0 /\ cin # cout
                                 THEN AllocGarbageAny(vs[cout].engine_)
                                 ELSE {NoGarbage}) :
                      /\ vecs' = transform(vs, cin, cout, first, last, d_first,
                                           gh, gd, gin, gout)
                      /\ ref' = [ref EXCEPT ![cout] =
                                    [i \in DOMAIN rout |->
                                        IF i >= d_first /\ i < n
                                        THEN Func(ref[cin][first + (i - d_first)])
                                        ELSE rout[i]]]
                      /\ op' = "transform"
                      /\ err' = NoError
                      /\ ret' = NoValue
                      /\ UNCHANGED thr

Next ==
    \/ Read(1)
    \/ Set(1)
    \/ Increment(1)
    \/ PushBack(1)
    \/ EmplaceBack(1)
    \/ PopBack(1)
    \/ Clear(1)
    \/ ShrinkToFit(1)
    \/ Reserve(1)
    \/ Insert(1)
    \/ Erase(1)
    \/ EraseRange(1)
    \/ Resize(1)
    \/ Assign(1)
    \/ Prefetch(1)
    \/ ForEach(1)
    \/ Sort(1)
    \/ Transform(1, 1)

Spec == InitOne /\ [][Next]_vars

-----------------------------------------------------------------------------
(* SpecTransform: element access and the bulk operations on container 1,    *)
(* transform taking its input from container 1 itself or from container 2   *)

InitTwo ==
    /\ vecs \in [Cont -> {unified_vector(l) : l \in Lists(MaxCap)}]
    /\ ref = [c \in Cont |-> vecs[c].engine_.host_data_]
    /\ thr = NoThreads
    /\ err = NoError
    /\ ret = NoValue
    /\ op = "construct"

NextTransform ==
    \/ Read(1)
    \/ Set(1)
    \/ ForEach(1)
    \/ Transform(1, 1)
    \/ Transform(2, 1)

SpecTransform == InitTwo /\ [][NextTransform]_vars

-----------------------------------------------------------------------------
(* The dirty-range set *)

Ranges(c) == Engine(c).dirty_ranges_

\* No two tracked ranges of container c overlap or touch.
DisjointNonAdjacent(c) ==
    \A i, j \in 1..Len(Ranges(c)) :
        i # j => \/ Ranges(c)[i].end < Ranges(c)[j].start
                 \/ Ranges(c)[j].end < Ranges(c)[i].start

\* The step is mark_host_dirty(s, t) on the engine of container 1.
IsMark(s, t) ==
    /\ op' = "mark_host_dirty"
    /\ vecs' = [vecs EXCEPT ![1].engine_ = mark_host_dirty_impl(E1, s, t)]

\* C4: after any sequence of mark_host_dirty calls, interleaved with
\* mark_device_dirty, clear_dirty_ranges and sync_to_host, the dirty-range set is
\* disjoint and non-adjacent (a.end < b.start or b.end < a.start for any two
\* distinct tracked ranges); marking [2,5) then [5,8) gives the single range
\* [2,8), and marking [0,3) then [6,9) gives the two ranges [0,3) and [6,9).
C4_DisjointNonAdjacent ==
    /\ [](DisjointNonAdjacent(1))
    /\ [][/\ (Ranges(1) = <<dirty_range(2, 5)>> /\ IsMark(5, 8))
              => Ranges(1)' = <<dirty_range(2, 8)>>
          /\ (Ranges(1) = <<dirty_range(0, 3)>> /\ IsMark(6, 9))
              => Ranges(1)' = <<dirty_range(0, 3), dirty_range(6, 9)>>]_vars

\* Both scenarios of C4 have happened: the set {[0,3), [6,9)} after a mark.
C4_Witness ==
    /\ op = "mark_host_dirty"
    /\ Ranges(1) = <<dirty_range(0, 3), dirty_range(6, 9)>>

\* C5: the indices covered by the dirty-range set are exactly the indices
\* passed to mark_host_dirty since the tracker was last cleared, and a range
\* that touches or overlaps several tracked ranges is merged with all of them:
\* marking [3,6) when the set is {[0,3), [6,9)} gives {[0,9)}.
C5_CoverageExact ==
    /\ [](Covered(Ranges(1)) = Engine(1).marked)
    /\ [][(/\ Ranges(1) = <<dirty_range(0, 3), dirty_range(6, 9)>>
           /\ IsMark(3, 6))
              => Ranges(1)' = <<dirty_range(0, 9)>>]_vars

\* Scenario C has happened: a mark that merged into one range and made the
\* pairwise pass erase another left the single range [0,9), with exactly the
\* indices 0..8 marked.
C5_Witness ==
    /\ op = "mark_host_dirty"
    /\ Ranges(1) = <<dirty_range(0, 9)>>
    /\ Engine(1).log.erased = 1
    /\ Engine(1).marked = 0..8


-----------------------------------------------------------------------------
(* Transparency and the caller protocols *)

\* C1: after any sequence of container operations and bulk device operations
\* on one unified_vector, with no explicit sync by the caller, the value a read
\* through the proxy or const access returns at every index i < size is the
\* value the plain host-only array holds at i after the same sequence.
C1_Transparency ==
    /\ vecs[1].size_ = Size(ref[1])
    /\ \A i \in 0..(vecs[1].size_ - 1) : at_impl(vecs[1], i).value = ref[1][i]

\* C6: every call of mark_host_dirty made by a host-mutating container
\* operation is entered in a state other than DeviceDirty.
C6_HostWriteProtocol == "device_dirty" \notin Engine(1).log.mhd_at

\* C7: every call of mark_device_dirty made by a bulk operation on a container
\* is entered in a state of that container other than HostDirty.
C7_DeviceWriteProtocol == \A c \in Cont : "host_dirty" \notin Engine(c).log.mdd_at

-----------------------------------------------------------------------------
(* Coherence of the two copies *)

\* Host and device of container c hold the same value at index i.
SameAt(c, i) == Engine(c).host_data_[i] = Engine(c).device_buffer_[i]

C3_CleanIffEmpty == (Engine(1).state_ = "clean") <=> (Ranges(1) = << >>)

-----------------------------------------------------------------------------
(* The sync operations and mark_device_dirty *)

\* The round trip leaves the state Clean and the host data as it was.
RoundTripKeeps ==
    /\ Engine(1).state_' = "clean"
    /\ Engine(1).host_data_' = Engine(1).host_data_

\* C8 as stated: from any reachable state, sync_to_device() immediately
\* followed by sync_to_host() leaves the state Clean and the host data
\* identical to what it was before the two calls.
C8_RoundTripAnyState == [][op' = "round_trip" => RoundTripKeeps]_vars

\* C8 as amended: from any reachable state other than DeviceDirty,
\* sync_to_device() immediately followed by sync_to_host() leaves the state
\* Clean and the host data identical to what it was before the two calls.
C8_RoundTrip ==
    [][(op' = "round_trip" /\ Engine(1).state_ # "device_dirty") => RoundTripKeeps]_vars

\* A round trip from HostDirty has happened: it transferred the dirty ranges
\* and ended Clean.
C8_Witness ==
    /\ op = "round_trip"
    /\ Engine(1).state_ = "clean"
    /\ Engine(1).log.copies > 0

\* The step left every field of the engine of container 1 as it was, issued no
\* copy command and allocated nothing.
NoOp == vecs'[1].engine_ = E1

\* C9: sync_to_device() in a state other than HostDirty and sync_to_host() in
\* a state other than DeviceDirty issue no backend transfer, allocate nothing
\* and leave state, dirty set, capacity, host data and device data unchanged;
\* a second consecutive sync_to_device() (or sync_to_host()) is a no-op, and
\* sync_to_device() in state Clean leaves the state Clean.
C9_NoOpSyncs ==
    [][/\ (op' = "sync_to_device" /\ Engine(1).state_ # "host_dirty") => NoOp
       /\ (op' = "sync_to_host" /\ Engine(1).state_ # "device_dirty") => NoOp
       /\ (op' = "sync_to_device" /\ op = "sync_to_device") => NoOp
       /\ (op' = "sync_to_host" /\ op = "sync_to_host") => NoOp
       /\ (op' = "sync_to_device" /\ Engine(1).state_ = "clean")
             => Engine(1).state_' = "clean"]_vars

\* sync_to_device() has been called in state Clean on a buffer with host data
\* and no device mirror: nothing was transferred and nothing allocated.
C9_Witness ==
    /\ op = "sync_to_device"
    /\ Engine(1).state_ = "clean"
    /\ Engine(1).capacity_ > 0
    /\ ~Engine(1).device_allocated_
    /\ Engine(1).log = NoLog

\* C10: mark_device_dirty(), in any state and with any dirty set, leaves the
\* dirty-range set empty and the state DeviceDirty, and changes neither
\* capacity nor host data.
C10_MarkDeviceDirty ==
    [][op' = "mark_device_dirty" =>
          /\ Ranges(1)' = << >>
          /\ Engine(1).state_' = "device_dirty"
          /\ Engine(1).capacity_' = Engine(1).capacity_
          /\ Engine(1).host_data_' = Engine(1).host_data_]_vars

\* mark_device_dirty() has been called in state HostDirty, where ranges were
\* tracked.
C10_Witness ==
    /\ op = "mark_device_dirty"
    /\ Engine(1).log.mdd_at = {"host_dirty"}
    /\ Ranges(1) = << >>
    /\ Engine(1).state_ = "device_dirty"

-----------------------------------------------------------------------------
(* Growth of the capacity *)

\* C11: when resize grows the capacity from c while the state is DeviceDirty
\* and a device mirror exists, the new mirror holds the old device values at
\* every index in [0,c), the state stays DeviceDirty, and a sync_to_host()
\* that follows makes host[i] the device value index i had before the resize.
C11_ResizeKeepsDeviceData ==
    [][(/\ op' = "engine_resize"
        /\ Engine(1).state_ = "device_dirty"
        /\ Engine(1).device_allocated_
        /\ vecs'[1].engine_.capacity_ > Engine(1).capacity_)
          => /\ vecs'[1].engine_.state_ = "device_dirty"
             /\ \A i \in 0..(Engine(1).capacity_ - 1) :
                   /\ vecs'[1].engine_.device_buffer_[i] = Engine(1).device_buffer_[i]
                   /\ sync_to_host_impl(vecs'[1].engine_).host_data_[i]
                          = Engine(1).device_buffer_[i]]_vars

\* A resize in state DeviceDirty has grown an allocated mirror that held the
\* value 1 at index 0 and has copied the old contents.
C11_Witness ==
    /\ op = "engine_resize"
    /\ Engine(1).state_ = "device_dirty"
    /\ Engine(1).device_allocated_
    /\ Engine(1).log.copies = 1
    /\ Engine(1).capacity_ >= 2
    /\ Engine(1).device_buffer_[0] = 1

-----------------------------------------------------------------------------
(* SpecGrowth: the operations of container 1 that change size or capacity,  *)
(* with element access, for_each, and resize called on its engine           *)

NextGrowth ==
    \/ Read(1)
    \/ Set(1)
    \/ PushBack(1)
    \/ PopBack(1)
    \/ Clear(1)
    \/ ShrinkToFit(1)
    \/ Reserve(1)
    \/ Insert(1)
    \/ Erase(1)
    \/ Resize(1)
    \/ Assign(1)
    \/ ForEach(1)
    \/ EngineResize

SpecGrowth == InitOne /\ [][NextGrowth]_vars

-----------------------------------------------------------------------------
(* SpecLazy: host-only operations of container 1 and of its engine, with    *)
(* the operations that ask for the device mirror                            *)

NextLazy ==
    \/ Read(1)
    \/ Set(1)
    \/ PushBack(1)
    \/ Insert(1)
    \/ Erase(1)
    \/ Resize(1)
    \/ Prefetch(1)
    \/ ForEach(1)
    \/ MarkHostDirty
    \/ SyncToHost
    \/ SyncToDevice
    \/ GetDeviceBuffer

SpecLazy == InitOne /\ [][NextLazy]_vars

\* The operations that never touch the device.
HostOnlyOps ==
    {"read", "set", "push_back", "insert", "erase", "resize",
     "mark_host_dirty", "sync_to_host"}

\* C13: the device mirror is not allocated by construction nor by a host-only
\* operation (proxy read or write, push_back, insert, erase, resize,
\* mark_host_dirty, sync_to_host, a sync_to_device that is a no-op); it becomes
\* allocated only in a sync_to_device performed in state HostDirty or in a
\* request for the device buffer (get_device_buffer, directly or by the kernel
\* submission of for_each); once allocated it stays allocated.
C13_LazyAllocation ==
    /\ [](op = "construct" => ~Engine(1).device_allocated_)
    /\ [][/\ op' \in HostOnlyOps
              => vecs'[1].engine_.device_allocated_ = Engine(1).device_allocated_
          /\ (op' \in {"sync_to_device", "prefetch_to_device"}
                  /\ Engine(1).state_ # "host_dirty")
              => vecs'[1].engine_.device_allocated_ = Engine(1).device_allocated_
          /\ (~Engine(1).device_allocated_ /\ vecs'[1].engine_.device_allocated_)
              => \/ op' \in {"get_device_buffer", "for_each"}
                 \/ /\ op' \in {"sync_to_device", "prefetch_to_device"}
                    /\ Engine(1).state_ = "host_dirty"
          /\ Engine(1).device_allocated_ => vecs'[1].engine_.device_allocated_]_vars

\* A container that grew by push_back to two elements without a device mirror
\* got its mirror in the sync_to_device of prefetch_to_device.
C13_Witness ==
    /\ op = "prefetch_to_device"
    /\ vecs[1].size_ = 2
    /\ Engine(1).device_allocated_
    /\ Engine(1).log.allocs = 1

-----------------------------------------------------------------------------
(* SpecInvalid: mark_host_dirty called with any range, valid or not *)

\* Most ranges tracked when a call with an invalid range is taken (invalid
\* ranges never merge, so the set would grow without end).
MaxRanges == 3

\* The two asserts at the head of mark_host_dirty_impl.
mark_host_dirty_asserts(e, start, end) == start <= end /\ end <= e.capacity_

\* mark_host_dirty(s, t) with a range the asserts reject.  ndebug: the build
\* defines NDEBUG (the documented Release build), where assert expands to
\* nothing and the body runs; otherwise assert ends the process.
MarkHostDirtyInvalid ==
    \E ndebug \in BOOLEAN : \E s \in 0..(MaxCap + 1) : \E t \in 0..(MaxCap + 1) :
        /\ ~mark_host_dirty_asserts(E1, s, t)
        /\ Len(E1.dirty_ranges_) < MaxRanges
        /\ IF ndebug
           THEN EngineStep("mark_host_dirty_invalid", mark_host_dirty_impl(E1, s, t))
           ELSE EngineStep("abort", E1)

\* Nothing runs after assert has ended the process.
Alive == op # "abort"

NextInvalid ==
    \/ Alive /\ MarkHostDirty
    \/ Alive /\ MarkHostDirtyInvalid
    \/ Alive /\ MarkDeviceDirty
    \/ Alive /\ ClearDirtyRanges

SpecInvalid == InitOne /\ [][NextInvalid]_vars

\* C14: mark_host_dirty(start, end) with start > end or end > capacity aborts
\* the operation with an error, and leaves the dirty-range set and the state
\* as they were before the call.
C14_InvalidRangesFailFast ==
    [][op' \in {"abort", "mark_host_dirty_invalid"}
          => /\ op' = "abort"
             /\ Ranges(1)' = Ranges(1)
             /\ vecs'[1].engine_.state_ = Engine(1).state_]_vars

-----------------------------------------------------------------------------
(* unified_vector: copy construction and copy assignment *)

\* unified_vector(const unified_vector& other): the source after the call and
\* the new vector.
copy_construct(other) ==
    LET a == sync_to_host_impl(other.engine_)
        e == versioning_engine(other.size_, NoGarbage)
    IN  [other |-> [other EXCEPT !.engine_ = a],
         copy |-> [engine_ |-> [e EXCEPT !.host_data_ =
                                   [i \in 0..(other.size_ - 1) |-> a.host_data_[i]]],
                   size_ |-> other.size_]]

\* A copy assignment that copies the host storage of the source as it is.
copy_assignMut(vs, cdst, csrc) ==
    IF cdst = csrc THEN vs
    ELSE [vs EXCEPT ![cdst] =
            [engine_ |-> [versioning_engine(vs[csrc].size_, NoGarbage) EXCEPT
                             !.host_data_ = [i \in 0..(vs[csrc].size_ - 1) |->
                                                vs[csrc].engine_.host_data_[i]]],
             size_ |-> vs[csrc].size_]]

\* vs[cdst] = vs[csrc]; this != &other is cdst # csrc.
copy_assign(vs, cdst, csrc) ==
    IF cdst = csrc THEN vs
    ELSE LET r == copy_construct(vs[csrc])
         IN  [vs EXCEPT ![csrc] = r.other, ![cdst] = r.copy]

-----------------------------------------------------------------------------
(* SpecCopy: container 1 grows by push_back and is run through for_each;    *)
(* container 2 is made a copy of it and run through for_each                *)

\* Container cdst goes out of scope and is declared again as a copy of csrc.
CopyConstruct(cdst, csrc) ==
    LET r == copy_construct(Begin(vecs[csrc]))
    IN  /\ cdst # csrc
        /\ vecs' = [vecs EXCEPT ![csrc] = r.other, ![cdst] = r.copy]
        /\ ref' = [ref EXCEPT ![cdst] = ref[csrc]]
        /\ op' = "copy_construct"
        /\ err' = NoError
        /\ ret' = NoValue
        /\ UNCHANGED thr

CopyAssign(cdst, csrc) ==
    /\ vecs' = copy_assign([c \in Cont |-> Begin(vecs[c])], cdst, csrc)
    /\ ref' = [ref EXCEPT ![cdst] = ref[csrc]]
    /\ op' = IF cdst = csrc THEN "self_assign" ELSE "copy_assign"
    /\ err' = NoError
    /\ ret' = NoValue
    /\ UNCHANGED thr

NextCopy ==
    \/ PushBack(1)
    \/ ForEach(1)
    \/ ForEach(2)
    \/ CopyConstruct(2, 1)
    \/ CopyAssign(2, 1)
    \/ CopyAssign(1, 1)

SpecCopy == InitOne /\ [][NextCopy]_vars

\* The step copied container 1 into container cdst: the source is not left
\* DeviceDirty and keeps its dirty set, the copy holds the elements of the
\* source (the device values if the source was DeviceDirty, else the host
\* values), and the copy is Clean with an empty dirty set and no mirror.
Copied(cdst) ==
    /\ vecs'[1].engine_.state_ # "device_dirty"
    /\ vecs'[1].engine_.dirty_ranges_ = Ranges(1)
    /\ vecs'[cdst].size_ = vecs[1].size_
    /\ \A i \in 0..(vecs[1].size_ - 1) :
          vecs'[cdst].engine_.host_data_[i] =
              IF Engine(1).state_ = "device_dirty"
              THEN Engine(1).device_buffer_[i] ELSE Engine(1).host_data_[i]
    /\ vecs'[cdst].engine_.state_ = "clean"
    /\ vecs'[cdst].engine_.dirty_ranges_ = << >>
    /\ ~vecs'[cdst].engine_.device_allocated_

-----------------------------------------------------------------------------
(* SpecDestroy: the engine of container 1 is used, then destroyed *)

\* ~versioning_engine that releases the storage at once.
destroyMut(e) == e

\* ~versioning_engine(): the engine when its members are about to be released.
destroy(e) == sync_to_host_impl(e)

Destroy == EngineStep("destroy", destroy(E1))

\* The engine has not been destroyed.
Exists == op # "destroy"

NextDestroy ==
    \/ Exists /\ MarkHostDirty
    \/ Exists /\ MarkDeviceDirty
    \/ Exists /\ SyncToDevice
    \/ Exists /\ EngineResize
    \/ Exists /\ GetDeviceBuffer
    \/ Exists /\ HostStore
    \/ Exists /\ Kernel
    \/ Exists /\ Destroy

SpecDestroy == InitOne /\ [][NextDestroy]_vars

\* C16: destroying a buffer whose state is DeviceDirty transfers the device
\* data to host before the storage is released; destroying a buffer whose
\* state is HostDirty or Clean issues no transfer at all; destruction never
\* issues a host-to-device transfer (the device buffer is left as it was).
C16_DestructionFlushesToHost ==
    [][op' = "destroy" =>
          /\ (Engine(1).state_ = "device_dirty" /\ Engine(1).device_allocated_)
                => /\ vecs'[1].engine_.log.copies = 1
                   /\ \A i \in 0..(Engine(1).capacity_ - 1) :
                         vecs'[1].engine_.host_data_[i] = Engine(1).device_buffer_[i]
          /\ Engine(1).state_ \in {"host_dirty", "clean"}
                => /\ vecs'[1].engine_.log.copies = 0
                   /\ vecs'[1].engine_.host_data_ = Engine(1).host_data_
          /\ vecs'[1].engine_.device_buffer_ = Engine(1).device_buffer_
          /\ vecs'[1].engine_.log.allocs = 0]_vars

\* A DeviceDirty buffer whose mirror held 1 at index 0 has been destroyed after
\* one transfer, which brought that value to host.
C16_Witness ==
    /\ op = "destroy"
    /\ Engine(1).log.copies = 1
    /\ Engine(1).capacity_ >= 1
    /\ Engine(1).device_buffer_[0] = 1
    /\ Engine(1).host_data_[0] = 1

-----------------------------------------------------------------------------
(* SpecThreads: thread 1 writes index 0 of container 1 through the proxy;   *)
(* thread 2 runs for_each over index 1 or reads index 0 through the proxy.  *)
(* A call of the engine that takes mutex_ exclusively is two steps, the     *)
(* body with the lock taken and the release; host_data() and                *)
(* get_device_buffer(), which take it shared and return, are one step that  *)
(* waits for an exclusive holder; what the callers do with the pointer      *)
(* afterwards is a step that waits for nothing.                             *)

\* Thread t moves to pc p, the engine becomes e, and the observations change.
ThreadStep(name, t, p, e, w, x, acc, expect, seen, got) ==
    /\ vecs' = [vecs EXCEPT ![1].engine_ = e]
    /\ op' = name
    /\ thr' = [pc |-> [thr.pc EXCEPT ![t] = p], writer |-> w, x |-> x, acc |-> acc,
               expect |-> expect, seen |-> seen, got |-> got]
    /\ err' = NoError
    /\ ret' = NoValue
    /\ UNCHANGED ref

\* std::unique_lock<std::shared_mutex> lock(mutex_) can be taken.
CanLock == thr.writer = 0

\* set_impl(0, v): engine_.sync_to_host(), the lock taken.
SetSync ==
    /\ thr.pc[1] = "idle" /\ CanLock /\ vecs[1].size_ >= 1
    /\ \E v \in Values :
          ThreadStep("set_sync", 1, "set_synced", sync_to_host_impl(E1), 1, v, {},
                     thr.expect, thr.seen, {})

\* The lock_guard of a call of the engine goes out of scope.
Unlock(t) ==
    /\ thr.writer = t
    /\ LET next == [set_synced |-> "set_data", set_marked |-> "idle",
                    k_synced |-> "k_buffer", k_marked |-> "idle",
                    r_synced |-> "r_data"]
       IN  ThreadStep("unlock", t, next[thr.pc[t]], E1, 0, thr.x, {},
                      IF thr.pc[t] = "set_marked" THEN {thr.x} ELSE thr.expect,
                      thr.seen, {})

\* set_impl: data_impl(), that is host_data() under a shared lock.
SetData ==
    /\ thr.pc[1] = "set_data" /\ CanLock
    /\ ThreadStep("set_data", 1, "set_store", E1, 0, thr.x, {}, thr.expect, thr.seen, {})

\* set_impl: data_impl()[0] = value, no lock held.
SetStore ==
    /\ thr.pc[1] = "set_store"
    /\ ThreadStep("set_store", 1, "set_mark", host_store(E1, 0, thr.x), thr.writer, thr.x,
                  {[t |-> 1, what |-> "host_data_"]}, {}, thr.seen, {})

\* set_impl: engine_.mark_host_dirty(0, 1), the lock taken.
SetMark ==
    /\ thr.pc[1] = "set_mark" /\ CanLock
    /\ ThreadStep("set_mark", 1, "set_marked", mark_host_dirty_impl(E1, 0, 1), 1, thr.x, {},
                  thr.expect, thr.seen, {})

\* execute_kernel over index 1: engine.sync_to_device(), the lock taken.
KernelSync ==
    /\ thr.pc[2] = "idle" /\ CanLock /\ vecs[1].size_ >= 2
    /\ \E g \in (IF E1.state_ = "host_dirty" THEN AllocGarbage(E1) ELSE {NoGarbage}) :
          ThreadStep("k_sync", 2, "k_synced", sync_to_device_impl(E1, g), 2, thr.x, {},
                     thr.expect, thr.seen, {})

\* execute_kernel: engine.get_device_buffer() in the command group.
KernelBuffer ==
    /\ thr.pc[2] = "k_buffer" /\ CanLock
    /\ \E g \in AllocGarbage(E1) :
          ThreadStep("k_buffer", 2, "k_kernel", get_device_buffer(E1, g), 0, thr.x, {},
                     thr.expect, thr.seen, {})

\* execute_kernel: parallel_for over index 1, and wait.
KernelRun ==
    /\ thr.pc[2] = "k_kernel"
    /\ ThreadStep("k_kernel", 2, "k_mark", kernel(E1, 1, 1), thr.writer, thr.x, {},
                  thr.expect, thr.seen, {})

\* execute_kernel: engine.mark_device_dirty(), the lock taken.
KernelMark ==
    /\ thr.pc[2] = "k_mark" /\ CanLock
    /\ ThreadStep("k_mark", 2, "k_marked", mark_device_dirty_impl(E1), 2, thr.x, {},
                  thr.expect, thr.seen, {})

\* at_impl(0): engine_.sync_to_host(), the lock taken.
ReadSync ==
    /\ thr.pc[2] = "idle" /\ CanLock /\ vecs[1].size_ >= 1
    /\ ThreadStep("r_sync", 2, "r_synced", sync_to_host_impl(E1), 2, thr.x, {},
                  thr.expect, thr.expect, {})

\* at_impl: data_impl(), that is host_data() under a shared lock.
ReadData ==
    /\ thr.pc[2] = "r_data" /\ CanLock
    /\ ThreadStep("r_data", 2, "r_load", E1, 0, thr.x, {}, thr.expect, thr.seen, {})

\* at_impl: return data_impl()[0], no lock held.
ReadLoad ==
    /\ thr.pc[2] = "r_load"
    /\ ThreadStep("r_load", 2, "idle", E1, thr.writer, thr.x,
                  {[t |-> 2, what |-> "host_data_"]}, thr.expect, thr.seen,
                  {E1.host_data_[0]})

NextThreads ==
    \/ SetSync
    \/ SetData
    \/ SetStore
    \/ SetMark
    \/ KernelSync
    \/ KernelBuffer
    \/ KernelRun
    \/ KernelMark
    \/ ReadSync
    \/ ReadData
    \/ ReadLoad
    \/ \E t \in Threads : Unlock(t)

SpecThreads == InitOne /\ [][NextThreads]_vars

\* C17: no thread reads or writes the buffer's host storage outside the lock
\* while another thread holds the lock exclusively (in a sync, a dirty-mark or
\* a lazy allocation): an element write or read by one thread never overlaps
\* a mutation by another.
C17_LockingDiscipline ==
    \A a \in thr.acc : thr.writer \in {0, a.t}

\* C18: a proxy read of index 0 that began after a proxy write of index 0 had
\* completed, with no host write to index 0 since (every kernel writes index 1
\* only), returns the value written.
C18_NoLostWrite ==
    (thr.got # {} /\ thr.expect # {} /\ thr.seen = thr.expect) => thr.got = thr.expect

-----------------------------------------------------------------------------
(* Failures of the backend.  alloc and copy say how the backend behaves in   *)
(* the call: "ok"; "throws", the SYCL call throws a sycl::exception; or, for *)
(* a copy, "async", the command group is accepted and fails while it runs,   *)
(* an asynchronous error that queue::wait() does not throw and that the      *)
(* default queue, made without an async_handler, hands to nobody.  Each      *)
(* operator gives the engine after the call, the fault and what was raised.  *)

AllocOutcomes == {"ok", "throws"}
CopyOutcomes == {"ok", "throws", "async"}

Returned(e) == [engine |-> e, fault |-> "none", raised |-> "none"]
Failed(e, fault, raised) == [engine |-> e, fault |-> fault, raised |-> raised]

sync_to_device_faulty(e, g, alloc, copy) ==
    IF e.state_ # "host_dirty" THEN Returned(e)
    ELSE IF ~e.device_allocated_ /\ alloc = "throws"
    THEN Failed(e, "alloc", "sycl::exception")
    ELSE LET a == ensure_device_allocated(e, g)
         IN  IF NonEmptyRanges(a.dirty_ranges_) = {} \/ copy = "ok"
             THEN Returned(sync_to_device_copy(e, g))
             ELSE IF copy = "throws"
             THEN Failed(a, "transfer", "sycl::exception")
             ELSE Failed([a EXCEPT !.dirty_ranges_ = << >>,
                                   !.marked = {},
                                   !.state_ = "clean"],
                         "transfer", "none")

sync_to_host_faulty(e, copy) ==
    IF e.state_ # "device_dirty" \/ ~e.device_allocated_ \/ copy = "ok"
    THEN Returned(sync_to_host_impl(e))
    ELSE IF copy = "throws"
    THEN Failed(e, "transfer", "sycl::exception")
    ELSE Failed([e EXCEPT !.state_ = "clean"], "transfer", "none")

\* host_data_.reserve(new_capacity) has run before the device buffer is made.
resize_faulty(e, new_capacity, gh, gd, alloc, copy) ==
    LET h == [e EXCEPT !.host_data_ = Uninit(e.capacity_, gh)]
    IN  IF new_capacity <= e.capacity_ \/ ~e.device_allocated_
        THEN Returned(resize_impl(e, new_capacity, gh, gd))
        ELSE IF alloc = "throws"
        THEN Failed(h, "alloc", "sycl::exception")
        ELSE IF e.state_ # "device_dirty" \/ copy = "ok"
        THEN Returned(resize_impl(e, new_capacity, gh, gd))
        ELSE IF copy = "throws"
        THEN Failed(h, "transfer", "sycl::exception")
        ELSE Failed([e EXCEPT !.host_data_ = Uninit(new_capacity, gh),
                              !.device_buffer_ = Uninit(new_capacity, gd),
                              !.capacity_ = new_capacity],
                    "transfer", "none")

-----------------------------------------------------------------------------
(* SpecFaulty: container 1 is written, grown and run through for_each, and  *)
(* the backend fails in prefetch_to_device, in a proxy read or in reserve   *)

\* Container 1 gets engine r.engine in an operation where the backend failed.
FaultyStep(name, r) ==
    /\ r.fault # "none"
    /\ vecs' = [vecs EXCEPT ![1].engine_ = r.engine]
    /\ op' = name
    /\ err' = [fault |-> r.fault, raised |-> r.raised]
    /\ ret' = NoValue
    /\ UNCHANGED <<ref, thr>>

PrefetchFaulty ==
    \E alloc \in AllocOutcomes : \E copy \in CopyOutcomes : \E g \in AllocGarbage(E1) :
        FaultyStep("prefetch_to_device", sync_to_device_faulty(E1, g, alloc, copy))

ReadFaulty ==
    /\ vecs[1].size_ >= 1
    /\ \E copy \in CopyOutcomes : FaultyStep("read", sync_to_host_faulty(E1, copy))

\* What the device buffer resize_faulty(e, n) may hold when the copy of the
\* old contents fails while it runs.
FaultyGarbage(e, n) ==
    IF n <= e.capacity_ \/ ~e.device_allocated_ THEN {NoGarbage} ELSE Garbage(0, n)

ReserveFaulty ==
    \E n \in 0..MaxCap : \E alloc \in AllocOutcomes : \E copy \in CopyOutcomes :
    \E gh \in HostGarbage(E1, n) : \E gd \in FaultyGarbage(E1, n) :
        FaultyStep("reserve", resize_faulty(E1, n, gh, gd, alloc, copy))

NextFaulty ==
    \/ Set(1)
    \/ PushBack(1)
    \/ ForEach(1)
    \/ PrefetchFaulty
    \/ ReadFaulty
    \/ ReserveFaulty

SpecFaulty == InitOne /\ [][NextFaulty]_vars

\* C19: when the allocation of the device mirror fails, in lazy allocation or
\* in resize, the triggering operation ends with an out_of_memory_exception
\* (carrying the requested byte size, distinct from a transfer error), and
\* state, dirty set and capacity are as before the call.
C19_AllocationFailure ==
    [][err'.fault = "alloc" =>
          /\ err'.raised = "out_of_memory_exception"
          /\ vecs'[1].engine_.state_ = Engine(1).state_
          /\ vecs'[1].engine_.dirty_ranges_ = Ranges(1)
          /\ vecs'[1].engine_.capacity_ = Engine(1).capacity_]_vars

\* C20: a transfer failure during sync_to_device, sync_to_host or resize is
\* reported as an error by the container operation that triggered it; when
\* sync_to_device fails the state stays HostDirty and the dirty-range set is
\* unchanged, and when sync_to_host fails the state stays DeviceDirty.
C20_TransferFailure ==
    [][err'.fault = "transfer" =>
          /\ err'.raised # "none"
          /\ op' = "prefetch_to_device"
                => /\ vecs'[1].engine_.state_ = "host_dirty"
                   /\ vecs'[1].engine_.dirty_ranges_ = Ranges(1)
          /\ op' = "read" => vecs'[1].engine_.state_ = "device_dirty"]_vars

-----------------------------------------------------------------------------
(* The build without VULKAN_STDPAR_USE_SYCL: the engine has no device buffer *)
(* and the algorithms taking the vulkan_parallel_policy call the standard    *)
(* algorithm on the container's iterators, whose proxies read through        *)
(* at_impl and write through set_impl.                                       *)

sync_to_device_nosycl(e) ==
    IF e.state_ # "host_dirty" THEN e
    ELSE [e EXCEPT !.dirty_ranges_ = << >>, !.marked = {}, !.state_ = "clean"]

sync_to_host_nosycl(e) ==
    IF e.state_ # "device_dirty" THEN e ELSE [e EXCEPT !.state_ = "clean"]

at_nosycl(v, index) ==
    LET e == sync_to_host_nosycl(v.engine_)
    IN  [vec |-> [v EXCEPT !.engine_ = e], value |-> e.host_data_[index]]

set_nosycl(v, index, value) ==
    LET a == sync_to_host_nosycl(v.engine_)
        b == host_store(a, index, value)
    IN  [v EXCEPT !.engine_ = mark_host_dirty_impl(b, index, index + 1)]

\* for_each that takes the device path of the build with the backend.
for_each_nosyclMut(v, first, last) == for_each(v, first, last, NoGarbage)

\* std::for_each(first, last, func), func(*it) writing Func of the value read.
RECURSIVE for_each_nosycl(_, _, _)
for_each_nosycl(v, first, last) ==
    IF first >= last THEN v
    ELSE LET r == at_nosycl(v, first)
         IN  for_each_nosycl(set_nosycl(r.vec, first, Func(r.value)), first + 1, last)

\* std::transform(first, last, d_first, func): *d_first++ = func(*first++).
RECURSIVE transform_nosycl(_, _, _, _, _, _)
transform_nosycl(vs, cin, cout, first, last, d_first) ==
    IF first >= last THEN vs
    ELSE LET r == at_nosycl(vs[cin], first)
             a == [vs EXCEPT ![cin] = r.vec]
             b == [a EXCEPT ![cout] = set_nosycl(@, d_first, Func(r.value))]
         IN  transform_nosycl(b, cin, cout, first + 1, last, d_first + 1)

\* The binary operation of reduce: addition of the two-valued element type.
BinaryOp(a, b) == (a + b) % 2

\* std::accumulate(first, last, init, op): the vector after the call and the
\* value returned.
RECURSIVE reduce_nosycl(_, _, _, _)
reduce_nosycl(v, first, last, init) ==
    IF first >= last THEN [vec |-> v, value |-> init]
    ELSE LET r == at_nosycl(v, first)
         IN  reduce_nosycl(r.vec, first + 1, last, BinaryOp(init, r.value))

\* The proxy writes of std::sort: the indices in written, in increasing order,
\* each receiving its final value h[i].
RECURSIVE StoreEach(_, _, _)
StoreEach(v, written, h) ==
    IF written = {} THEN v
    ELSE LET i == CHOOSE m \in written : \A n \in written : m <= n
         IN  StoreEach(set_nosycl(v, i, h[i]), written \ {i}, h)

\* std::sort(first, last, comp) through the proxies.  Which elements the
\* library assigns is its own choice: written holds at least those that change.
sort_nosycl(v, first, last, written) ==
    LET h == Sorted(v.engine_.host_data_, first, last - first)
        r == IF first < last THEN at_nosycl(v, first).vec ELSE v
    IN  StoreEach(r, written, h)

\* The indices std::sort may assign in [first, last) of host storage h.
SortWrites(h, first, last) ==
    {w \in SUBSET (first..(last - 1)) :
        \A i \in first..(last - 1) :
            Sorted(h, first, last - first)[i] # h[i] => i \in w}

\* The host-only algorithms on a plain array.
RECURSIVE RefTransform(_, _, _, _, _, _)
RefTransform(rs, cin, cout, first, last, d_first) ==
    IF first >= last THEN rs
    ELSE RefTransform([rs EXCEPT ![cout][d_first] = Func(rs[cin][first])],
                      cin, cout, first + 1, last, d_first + 1)

RECURSIVE RefReduce(_, _, _, _)
RefReduce(r, first, last, init) ==
    IF first >= last THEN init
    ELSE RefReduce(r, first + 1, last, BinaryOp(init, r[first]))

-----------------------------------------------------------------------------
(* SpecNoSycl: the build without backend; proxy writes and prefetch on      *)
(* container 1 and the four algorithms called with vulkan_par               *)

\* Containers become vs and the plain arrays rs by operation name, returning
\* the values in value.
NoSyclStep(name, vs, rs, value) ==
    /\ vecs' = vs
    /\ ref' = rs
    /\ op' = name
    /\ err' = NoError
    /\ ret' = value
    /\ UNCHANGED thr

V1 == Begin(vecs[1])

SetNoSycl ==
    \E i \in 0..(V1.size_ - 1) : \E x \in Values :
        NoSyclStep("set", [vecs EXCEPT ![1] = set_nosycl(V1, i, x)],
                   [ref EXCEPT ![1][i] = x], NoValue)

PrefetchNoSycl ==
    NoSyclStep("prefetch_to_device",
               [vecs EXCEPT ![1].engine_ = sync_to_device_nosycl(V1.engine_)],
               ref, NoValue)

ForEachNoSycl ==
    \E first \in 0..V1.size_ : \E last \in first..V1.size_ :
        NoSyclStep("for_each", [vecs EXCEPT ![1] = for_each_nosycl(V1, first, last)],
                   [ref EXCEPT ![1] =
                       [i \in DOMAIN @ |->
                           IF i >= first /\ i < last THEN Func(@[i]) ELSE @[i]]],
                   NoValue)

\* The calls taken are those whose output range lies inside the output
\* container, as std::transform requires.
TransformNoSycl(cin) ==
    LET vs == [vecs EXCEPT ![1] = V1, ![cin] = Begin(vecs[cin])]
    IN  \E first \in 0..vs[cin].size_ : \E last \in first..vs[cin].size_ :
        \E d_first \in 0..vs[1].size_ :
            /\ d_first + (last - first) <= vs[1].size_
            /\ NoSyclStep("transform", transform_nosycl(vs, cin, 1, first, last, d_first),
                          RefTransform(ref, cin, 1, first, last, d_first), NoValue)

ReduceNoSycl ==
    \E first \in 0..V1.size_ : \E last \in first..V1.size_ : \E init \in Values :
        LET r == reduce_nosycl(V1, first, last, init)
        IN  NoSyclStep("reduce", [vecs EXCEPT ![1] = r.vec], ref, {r.value})

SortNoSycl ==
    \E first \in 0..V1.size_ : \E last \in first..V1.size_ :
    \E written \in SortWrites(V1.engine_.host_data_, first, last) :
        NoSyclStep("sort", [vecs EXCEPT ![1] = sort_nosycl(V1, first, last, written)],
                   [ref EXCEPT ![1] = Sorted(@, first, last - first)], NoValue)

NextNoSycl ==
    \/ SetNoSycl
    \/ PrefetchNoSycl
    \/ ForEachNoSycl
    \/ TransformNoSycl(1)
    \/ TransformNoSycl(2)
    \/ ReduceNoSycl
    \/ SortNoSycl

SpecNoSycl == InitTwo /\ [][NextNoSycl]_vars

\* The elements of container c, as a plain array.
Contents(c) == [i \in 0..(vecs[c].size_ - 1) |-> Engine(c).host_data_[i]]

\* The step is reduce(vulkan_par, first, last, init) on container 1.
IsReduceNoSycl(first, last, init) ==
    /\ op' = "reduce"
    /\ vecs' = [vecs EXCEPT ![1] = reduce_nosycl(V1, first, last, init).vec]
    /\ ret' = {reduce_nosycl(V1, first, last, init).value}

Algorithms == {"for_each", "transform", "reduce", "sort"}

\* C21: without an accelerator backend, for_each, transform, reduce and sort
\* called with the accelerator policy raise no error, leave every container
\* holding what the host-only algorithm leaves in a plain array, return what
\* the host-only algorithm returns, and leave no container DeviceDirty.
C21_HostFallback ==
    [][op' \in Algorithms =>
          /\ err'.raised = "none"
          /\ \A c \in Cont :
                /\ vecs'[c].engine_.state_ # "device_dirty"
                /\ ~vecs'[c].engine_.device_allocated_
                /\ Contents(c)' = ref'[c]
          /\ \A first \in 0..V1.size_ : \A last \in first..V1.size_ :
             \A init \in Values :
                IsReduceNoSycl(first, last, init)
                    => ret' = {RefReduce(ref[1], first, last, init)}]_vars

\* for_each over both elements of a container left Clean by prefetch: the
\* elements changed as in the plain array, through two proxy writes.
C21_Witness ==
    /\ op = "for_each"
    /\ vecs[1].size_ = 2
    /\ Engine(1).state_ = "host_dirty"
    /\ Ranges(1) = <<dirty_range(0, 2)>>
    /\ Engine(1).log.mhd_at = {"clean", "host_dirty"}
    /\ Contents(1) = ref[1]
    /\ ref[1][0] = 1

-----------------------------------------------------------------------------
(* SpecAt: bounds-checked element access on container 1 *)

\* What a call gave: the vector after it, what it threw and what it returned.
Gave(v, raised, value) == [vec |-> v, raised |-> raised, value |-> value]

\* at(pos) const that syncs before it checks the index.
at_constMut(v, pos) ==
    IF pos >= v.size_ THEN Gave(data(v), "std::out_of_range", NoValue)
    ELSE Gave(at_impl(v, pos).vec, "none", {at_impl(v, pos).value})

\* const_reference at(size_type pos) const
at_const(v, pos) ==
    IF pos >= v.size_ THEN Gave(v, "std::out_of_range", NoValue)
    ELSE Gave(at_impl(v, pos).vec, "none", {at_impl(v, pos).value})

\* v.at(pos) = value: reference at(size_type pos), then the proxy's operator=.
at_assign(v, pos, value) ==
    IF pos >= v.size_ THEN Gave(v, "std::out_of_range", NoValue)
    ELSE Gave(set_impl(v, pos, value), "none", NoValue)

\* Container 1 and its plain array become r.vec and rr, by operation name.
AtStep(name, r, rr) ==
    /\ vecs' = [vecs EXCEPT ![1] = r.vec]
    /\ ref' = [ref EXCEPT ![1] = rr]
    /\ op' = name
    /\ err' = [fault |-> "none", raised |-> r.raised]
    /\ ret' = r.value
    /\ UNCHANGED thr

AtConst == \E pos \in 0..MaxCap : AtStep("at", at_const(V1, pos), ref[1])

AtAssign ==
    \E pos \in 0..MaxCap : \E x \in Values :
        AtStep("at_assign", at_assign(V1, pos, x),
               IF pos < V1.size_ THEN [ref[1] EXCEPT ![pos] = x] ELSE ref[1])

NextAt ==
    \/ AtConst
    \/ AtAssign
    \/ PushBack(1)
    \/ PopBack(1)
    \/ Prefetch(1)
    \/ ForEach(1)

SpecAt == InitOne /\ [][NextAt]_vars

\* The step is at(pos) const, or at(pos) = x, on container 1.
IsAtConst(pos) ==
    /\ op' = "at"
    /\ vecs' = [vecs EXCEPT ![1] = at_const(V1, pos).vec]
    /\ err' = [fault |-> "none", raised |-> at_const(V1, pos).raised]
    /\ ret' = at_const(V1, pos).value

IsAtAssign(pos, x) ==
    /\ op' = "at_assign"
    /\ vecs' = [vecs EXCEPT ![1] = at_assign(V1, pos, x).vec]
    /\ err' = [fault |-> "none", raised |-> at_assign(V1, pos, x).raised]

\* C22: at(pos) with pos >= size raises std::out_of_range and changes neither
\* the state, the dirty set nor the storage (no sync, no marking); at(pos)
\* with pos < size never raises it.
C22_BoundsChecked ==
    [][\A pos \in 0..MaxCap :
          (IsAtConst(pos) \/ \E x \in Values : IsAtAssign(pos, x)) =>
              IF pos >= vecs[1].size_
              THEN /\ err'.raised = "std::out_of_range"
                   /\ ret' = NoValue
                   /\ vecs'[1] = V1
              ELSE err'.raised = "none"]_vars

\* at() past the end of a non-empty container whose data is on the device:
\* the error, and the state still DeviceDirty.
C22_Witness ==
    /\ op = "at"
    /\ err.raised = "std::out_of_range"
    /\ vecs[1].size_ >= 1
    /\ Engine(1).state_ = "device_dirty"
    /\ Engine(1).device_allocated_

-----------------------------------------------------------------------------
(* SpecOwn: container 1 grows and shrinks while container 2 is empty, and   *)
(* containers 1 and 2 are copied, moved and swapped                         *)

\* The engine a move leaves behind: capacity_ 0, no device buffer, Clean.
MovedFrom == [engine_ |-> versioning_engine(0, NoGarbage), size_ |-> 0]

\* unified_vector(unified_vector&& other): other after the call and the vector
\* made.
move_construct(other) == [other |-> MovedFrom, made |-> other]

\* Move assignment that leaves the source as it was.
move_assignMut(vs, cdst, csrc) ==
    IF cdst = csrc THEN vs ELSE [vs EXCEPT ![cdst] = vs[csrc]]

\* vs[cdst] = std::move(vs[csrc])
move_assign(vs, cdst, csrc) ==
    IF cdst = csrc THEN vs
    ELSE [vs EXCEPT ![cdst] = vs[csrc], ![csrc] = MovedFrom]

\* vs[c1].swap(vs[c2]): std::swap of the engines and of the sizes.
swap(vs, c1, c2) == [vs EXCEPT ![c1] = vs[c2], ![c2] = vs[c1]]

\* Both containers at the start of an operation on the two of them.
Both == [c \in Cont |-> Begin(vecs[c])]

\* Containers and plain arrays become vs and rs, by operation name.
OwnStep(name, vs, rs) ==
    /\ vecs' = vs
    /\ ref' = rs
    /\ op' = name
    /\ err' = NoError
    /\ ret' = NoValue
    /\ UNCHANGED thr

\* Container cdst is destroyed and made anew by a move from csrc.
MoveConstruct(cdst, csrc) ==
    LET r == move_construct(Both[csrc])
    IN  OwnStep("move_construct", [Both EXCEPT ![csrc] = r.other, ![cdst] = r.made],
                [ref EXCEPT ![cdst] = ref[csrc], ![csrc] = << >>])

MoveAssign(cdst, csrc) ==
    OwnStep("move_assign", move_assign(Both, cdst, csrc),
            [ref EXCEPT ![cdst] = ref[csrc], ![csrc] = << >>])

Swap(c1, c2) ==
    OwnStep("swap", swap(Both, c1, c2), [ref EXCEPT ![c1] = ref[c2], ![c2] = ref[c1]])

\* Container 2 holds nothing: it is as constructed, or moved from.
Sole == vecs[2] = MovedFrom

\* Container 1 is operated on while it is the only one holding elements.
NextOwn ==
    \/ Sole /\ PushBack(1)
    \/ Sole /\ EmplaceBack(1)
    \/ Sole /\ PopBack(1)
    \/ Sole /\ Clear(1)
    \/ Sole /\ Insert(1)
    \/ Sole /\ Erase(1)
    \/ Sole /\ Resize(1)
    \/ Sole /\ Assign(1)
    \/ Sole /\ ForEach(1)
    \/ CopyConstruct(2, 1)
    \/ CopyAssign(2, 1)
    \/ MoveConstruct(2, 1)
    \/ MoveAssign(1, 2)
    \/ Swap(1, 2)

SpecOwn == InitOne /\ [][NextOwn]_vars

\* C23: after every container operation the logical size is at most the
\* capacity, and an allocated device mirror has the capacity of the host
\* storage.
C23_SizeWithinCapacity ==
    \A c \in Cont :
        /\ vecs[c].size_ <= capacity(vecs[c])
        /\ Engine(c).device_allocated_ =>
               DOMAIN Engine(c).device_buffer_ = 0..(capacity(vecs[c]) - 1)

\* resize on a full container whose device mirror exists: the mirror was
\* allocated anew with the larger capacity.
C23_Witness ==
    /\ op = "resize"
    /\ vecs[1].size_ = 2
    /\ capacity(vecs[1]) = 2
    /\ Engine(1).device_allocated_
    /\ Engine(1).log.allocs = 1

-----------------------------------------------------------------------------
(* SpecDoubling: container 1 is appended to and inserted into up to          *)
(* capacity GrowthCap, with pop_back making room and prefetch allocating the *)
(* device mirror                                                             *)

PushBackDoubling ==
    LET grows == V1.size_ >= capacity(V1)
    IN  /\ grows => GrowCap(V1) <= GrowthCap
        /\ \E x \in Values :
           \E gh \in GrowHost(V1, grows, GrowCap(V1)) :
           \E gd \in GrowDevice(V1, grows, GrowCap(V1)) :
              VecStep("push_back", 1, push_back(V1, x, gh, gd),
                      RefInsert(ref[1], Size(ref[1]), x))

EmplaceBackDoubling ==
    LET grows == V1.size_ >= capacity(V1)
    IN  /\ grows => GrowCap(V1) <= GrowthCap
        /\ \E x \in Values :
           \E gh \in GrowHost(V1, grows, GrowCap(V1)) :
           \E gd \in GrowDevice(V1, grows, GrowCap(V1)) :
              VecStep("emplace_back", 1, emplace_back(V1, x, gh, gd),
                      RefInsert(ref[1], Size(ref[1]), x))

InsertDoubling ==
    LET grows == V1.size_ >= capacity(V1)
    IN  /\ grows => GrowCap(V1) <= GrowthCap
        /\ \E pos \in 0..V1.size_ : \E x \in Values :
           \E gh \in GrowHost(V1, grows, GrowCap(V1)) :
           \E gd \in GrowDevice(V1, grows, GrowCap(V1)) :
              VecStep("insert", 1, insert(V1, pos, x, gh, gd), RefInsert(ref[1], pos, x))

NextDoubling ==
    \/ PushBackDoubling
    \/ EmplaceBackDoubling
    \/ InsertDoubling
    \/ PopBack(1)
    \/ Prefetch(1)

SpecDoubling == InitOne /\ [][NextDoubling]_vars

\* C24: push_back, emplace_back and single-element insert on a full container
\* make the capacity 1 when it was 0 and twice the old capacity otherwise;
\* on a container with room they leave the capacity unchanged.
C24_DoublingGrowth ==
    [][op' \in {"push_back", "emplace_back", "insert"} =>
          /\ vecs'[1].size_ = vecs[1].size_ + 1
          /\ capacity(vecs'[1]) =
                IF vecs[1].size_ < capacity(vecs[1]) THEN capacity(vecs[1])
                ELSE IF capacity(vecs[1]) = 0 THEN 1
                ELSE 2 * capacity(vecs[1])]_vars

\* insert into a full container of capacity 2 whose device mirror exists.
C24_Witness ==
    /\ op = "insert"
    /\ vecs[1].size_ = 3
    /\ capacity(vecs[1]) = 4
    /\ Engine(1).device_allocated_
    /\ Engine(1).log.allocs = 1

-----------------------------------------------------------------------------
\* C25: sync_to_device() in state HostDirty allocates the device mirror if
\* there is none, copies host[i] to device[i] for exactly the indices the
\* tracked ranges cover (one copy per non-empty range, no other index of an
\* existing mirror changes), and returns with the set empty and state Clean.
C25_SyncToDevice ==
    [][(op' \in {"sync_to_device", "prefetch_to_device"}
          /\ Engine(1).state_ = "host_dirty") =>
          LET e == vecs'[1].engine_
          IN  /\ e.device_allocated_
              /\ DOMAIN e.device_buffer_ = 0..(e.capacity_ - 1)
              /\ e.log.allocs = IF Engine(1).device_allocated_ THEN 0 ELSE 1
              /\ e.log.copies = Cardinality(NonEmptyRanges(Ranges(1)))
              /\ \A i \in 0..(e.capacity_ - 1) :
                    IF i \in Covered(Ranges(1))
                    THEN e.device_buffer_[i] = Engine(1).host_data_[i]
                    ELSE Engine(1).device_allocated_
                            => e.device_buffer_[i] = Engine(1).device_buffer_[i]
              /\ e.host_data_ = Engine(1).host_data_
              /\ e.dirty_ranges_ = << >>
              /\ e.state_ = "clean"]_vars

\* A sync of the one dirty index 0 into an existing mirror of two elements:
\* index 1, not dirty, still differs between host and device.
C25_Witness ==
    /\ op = "sync_to_device"
    /\ Engine(1).state_ = "clean"
    /\ Engine(1).capacity_ = 2
    /\ Engine(1).log.copies = 1
    /\ Engine(1).log.allocs = 0
    /\ Engine(1).host_data_[0] = 1
    /\ SameAt(1, 0)
    /\ ~SameAt(1, 1)

-----------------------------------------------------------------------------
\* C26: sync_to_host() in state DeviceDirty copies the entire device buffer
\* (every index below capacity) to host and sets the state to Clean; whenever
\* sync_to_host() returns, the state is not DeviceDirty.
C26_SyncToHost ==
    [][op' = "sync_to_host" =>
          /\ Engine(1).state_ = "device_dirty" =>
                /\ \A i \in 0..(Engine(1).capacity_ - 1) :
                      vecs'[1].engine_.host_data_[i] = Engine(1).device_buffer_[i]
                /\ vecs'[1].engine_.state_ = "clean"
          /\ vecs'[1].engine_.state_ # "device_dirty"]_vars

-----------------------------------------------------------------------------
\* C27: mark_host_dirty(s, t) with s < t <= capacity moves Clean to HostDirty
\* and leaves HostDirty and DeviceDirty as they are; with s = t it changes
\* neither the state nor the dirty-range set.  It never stores Clean.
C27_MarkHostDirtyState ==
    [][op' = "mark_host_dirty" =>
          \A s \in 0..Engine(1).capacity_ : \A t \in s..Engine(1).capacity_ :
              IsMark(s, t) =>
                  IF s = t
                  THEN /\ vecs'[1].engine_.state_ = Engine(1).state_
                       /\ vecs'[1].engine_.dirty_ranges_ = Ranges(1)
                  ELSE /\ vecs'[1].engine_.state_ =
                             IF Engine(1).state_ = "clean" THEN "host_dirty"
                             ELSE Engine(1).state_
                       /\ vecs'[1].engine_.dirty_ranges_ # << >>]_vars

\* mark_host_dirty of a non-empty range on an engine that is DeviceDirty.
C27_Witness ==
    /\ op = "mark_host_dirty"
    /\ Engine(1).state_ = "device_dirty"
    /\ Engine(1).log.mhd_at = {"device_dirty"}
    /\ Ranges(1) = <<dirty_range(0, 1)>>

-----------------------------------------------------------------------------
(* SpecProxy: element access through the proxy on container 1, in the       *)
(* states push_back, prefetch and for_each leave it in                       *)

ProxySwap(c) ==
    \E i, j \in 0..(vecs[c].size_ - 1) :
        VecStep("proxy_swap", c, proxy_swap(Begin(vecs[c]), i, j),
                [ref[c] EXCEPT ![i] = ref[c][j], ![j] = ref[c][i]])

\* operator T() of a proxy, or operator[] const: the value is returned.
ReadValue ==
    \E i \in 0..(V1.size_ - 1) :
        AtStep("read", Gave(at_impl(V1, i).vec, "none", {at_impl(V1, i).value}), ref[1])

\* data() const: the pointer is returned, nothing is read through it.
Data == VecStep("data", 1, data(V1), ref[1])

NextProxy ==
    \/ Set(1)
    \/ Increment(1)
    \/ ProxySwap(1)
    \/ ReadValue
    \/ Data
    \/ PushBack(1)
    \/ Prefetch(1)
    \/ ForEach(1)

SpecProxy == InitOne /\ [][NextProxy]_vars

\* The host storage of container 1 once sync_to_host has run: the device
\* values when the device holds the data and its mirror exists.
HostAfterSync ==
    IF Engine(1).state_ = "device_dirty" /\ Engine(1).device_allocated_
    THEN Engine(1).device_buffer_
    ELSE Engine(1).host_data_

\* The steps of SpecProxy that write through a proxy.
IsSet(i, x) ==
    /\ op' = "set"
    /\ vecs' = [vecs EXCEPT ![1] = set_impl(V1, i, x)]

IsIncrement(i) ==
    /\ op' = "increment"
    /\ vecs' = [vecs EXCEPT ![1] = proxy_increment(V1, i)]

IsProxySwap(i, j) ==
    /\ op' = "proxy_swap"
    /\ vecs' = [vecs EXCEPT ![1] = proxy_swap(V1, i, j)]

\* Container 1 after a write of the indices in written: the host storage is h,
\* the state HostDirty, and written is what the dirty set newly covers.
Wrote(written, h) ==
    /\ \A k \in 0..(Engine(1).capacity_ - 1) : vecs'[1].engine_.host_data_[k] = h[k]
    /\ Covered(vecs'[1].engine_.dirty_ranges_) = Covered(Ranges(1)) \cup written
    /\ vecs'[1].engine_.state_ = "host_dirty"
    /\ vecs'[1].engine_.log.mhd_at \subseteq {"clean", "host_dirty"}

-----------------------------------------------------------------------------
\* The step is a read of index i of container 1 that returned its value.
IsReadValue(i) ==
    /\ op' = "read"
    /\ vecs' = [vecs EXCEPT ![1] = at_impl(V1, i).vec]
    /\ ret' = {at_impl(V1, i).value}

-----------------------------------------------------------------------------
(* SpecSpans: the operations of container 1 that change its size, insert    *)
(* and erase returning the iterator to the position they worked at          *)

InsertAt ==
    LET grows == V1.size_ >= capacity(V1)
    IN  /\ grows => GrowCap(V1) <= MaxCap
        /\ \E pos \in 0..V1.size_ : \E x \in Values :
           \E gh \in GrowHost(V1, grows, GrowCap(V1)) :
           \E gd \in GrowDevice(V1, grows, GrowCap(V1)) :
              AtStep("insert", Gave(insert(V1, pos, x, gh, gd), "none", {pos}),
                     RefInsert(ref[1], pos, x))

EraseAtPos ==
    \E pos \in 0..(V1.size_ - 1) :
        AtStep("erase", Gave(erase(V1, pos), "none", {pos}),
               RefErase(ref[1], pos, pos + 1))

EraseRangeAt ==
    \E first \in 0..V1.size_ : \E last \in first..V1.size_ :
        AtStep("erase_range", Gave(erase_range(V1, first, last), "none", {first}),
               RefErase(ref[1], first, last))

NextSpans ==
    \/ PushBack(1)
    \/ EmplaceBack(1)
    \/ PopBack(1)
    \/ InsertAt
    \/ EraseAtPos
    \/ EraseRangeAt
    \/ Resize(1)
    \/ Prefetch(1)

SpecSpans == InitOne /\ [][NextSpans]_vars

\* The dirty set holding [a, b), which is the empty set when [a, b) is empty.
SpanSet(a, b) == IF a < b THEN <<dirty_range(a, b)>> ELSE << >>

\* Container 1 is Clean with an empty dirty set.
CleanEmpty == Engine(1).state_ = "clean" /\ Ranges(1) = << >>

\* After the step the dirty set of container 1 is span, and the state is
\* HostDirty when that is not empty and still Clean when it is.
Leaves(span) ==
    /\ vecs'[1].engine_.dirty_ranges_ = span
    /\ vecs'[1].engine_.state_ = IF span = << >> THEN "clean" ELSE "host_dirty"

\* The spans of the operations other than erase of a range, from size n.
SpansFrom(n) ==
    /\ op' \in {"push_back", "emplace_back"} => Leaves(SpanSet(n, n + 1))
    /\ op' = "insert" => \A p \in ret' : Leaves(SpanSet(p, n + 1))
    /\ op' = "erase" => \A p \in ret' : Leaves(SpanSet(p, n - 1))
    /\ op' = "resize" => Leaves(SpanSet(n, vecs'[1].size_))
    /\ op' = "pop_back" => Leaves(<< >>)

\* C30 as stated: from Clean with an empty dirty set and size n, push_back and
\* emplace_back leave {[n,n+1)}, insert at p {[p,n+1)}, erase at p {[p,n-1)},
\* erase of [f,l) {[f,n-(l-f))}, resize to count > n {[n,count)}, pop_back and
\* a shrinking resize the empty set.
C30_MinimalSpansAlways ==
    [][CleanEmpty =>
          /\ SpansFrom(vecs[1].size_)
          /\ op' = "erase_range" =>
                \A f \in ret' :
                    Leaves(SpanSet(f, vecs'[1].size_))]_vars

\* C30: the same, where erase of an empty range [f,f) leaves the dirty set
\* empty and erase of [f,l) with f < l leaves {[f,n-(l-f))}.
C30_MinimalSpans ==
    [][CleanEmpty =>
          /\ SpansFrom(vecs[1].size_)
          /\ op' = "erase_range" =>
                \A f \in ret' :
                    IF vecs'[1].size_ = vecs[1].size_ THEN Leaves(<< >>)
                    ELSE Leaves(SpanSet(f, vecs'[1].size_))]_vars

\* erase of the first of two elements of a Clean container: the one element
\* that moved is dirty.
C30_Witness ==
    /\ op = "erase"
    /\ ret = {0}
    /\ vecs[1].size_ = 1
    /\ Ranges(1) = <<dirty_range(0, 1)>>
    /\ Engine(1).state_ = "host_dirty"
    /\ Engine(1).log.mhd_at = {"clean"}

-----------------------------------------------------------------------------
(* SpecOrder: for_each on container 1 taken one call at a time by a single   *)
(* thread: the return of engine.sync_to_device(), the submission of the      *)
(* kernel, the return of wait(), and engine.mark_device_dirty().  Between    *)
(* bulk operations the thread writes through the proxy and appends.          *)

\* No bulk operation is in progress.  first, last: the range of the last
\* for_each; calls: what it has done so far, in order; launched: the device
\* buffer when its kernel was submitted.
NoBulk == [pc |-> "idle", first |-> 0, last |-> 0, calls |-> << >>, launched |-> {}]

InitOrder ==
    /\ \E l \in Lists(MaxCap) :
          vecs = [c \in Cont |-> IF c = 1 THEN unified_vector(l) ELSE unified_vector(<< >>)]
    /\ ref = [c \in Cont |-> vecs[c].engine_.host_data_]
    /\ thr = NoBulk
    /\ err = NoError
    /\ ret = NoValue
    /\ op = "construct"

\* The for_each in progress moves to pc p with container 1's engine e.
OrderStep(name, p, e, first, last, calls, launched, r) ==
    /\ vecs' = [vecs EXCEPT ![1].engine_ = e]
    /\ ref' = [ref EXCEPT ![1] = r]
    /\ thr' = [pc |-> p, first |-> first, last |-> last, calls |-> calls,
               launched |-> launched]
    /\ err' = NoError
    /\ ret' = NoValue
    /\ op' = name

Idle == thr.pc = "idle"

\* for_each with count == 0: return.
ForEachEmptyRange ==
    /\ Idle
    /\ \E first \in 0..V1.size_ :
          OrderStep("for_each", "idle", V1.engine_, first, first, << >>, {}, ref[1])

\* for_each with count > 0, execute_kernel: engine.sync_to_device() returns.
ForEachSync ==
    /\ Idle
    /\ \E first \in 0..V1.size_ : \E last \in (first + 1)..V1.size_ :
       \E g \in (IF V1.engine_.state_ = "host_dirty"
                 THEN AllocGarbage(V1.engine_) ELSE {NoGarbage}) :
          OrderStep("sync_to_device", "synced", sync_to_device_impl(V1.engine_, g),
                    first, last, <<"sync_to_device">>, {}, ref[1])

\* execute_kernel: q.submit(...), the command group takes
\* engine.get_device_buffer() and the kernel is queued.
ForEachLaunch ==
    /\ thr.pc = "synced"
    /\ \E g \in AllocGarbage(Engine(1)) :
          LET e == get_device_buffer(Engine(1), g)
          IN  OrderStep("launch", "launched", e, thr.first, thr.last,
                        Append(thr.calls, "launch"), {e.device_buffer_}, ref[1])

\* execute_kernel: .wait() returns, the kernel has run over [first, last).
ForEachWait ==
    /\ thr.pc = "launched"
    /\ OrderStep("wait", "ran", kernel(Engine(1), thr.first, thr.last - thr.first),
                 thr.first, thr.last, Append(thr.calls, "wait"), thr.launched, ref[1])

\* execute_kernel: engine.mark_device_dirty(), and for_each returns.
ForEachMark ==
    /\ thr.pc = "ran"
    /\ OrderStep("for_each", "idle", mark_device_dirty_impl(Engine(1)), thr.first, thr.last,
                 Append(thr.calls, "mark_device_dirty"), thr.launched,
                 [i \in DOMAIN ref[1] |->
                     IF i >= thr.first /\ i < thr.last THEN Func(ref[1][i]) ELSE ref[1][i]])

NextOrder ==
    \/ ForEachEmptyRange
    \/ ForEachSync
    \/ ForEachLaunch
    \/ ForEachWait
    \/ ForEachMark
    \/ Idle /\ Set(1)
    \/ Idle /\ PushBack(1)
    \/ Idle /\ PopBack(1)
    \/ Idle /\ Read(1)

SpecOrder == InitOrder /\ [][NextOrder]_vars

\* The device buffer b after a kernel over [first, last).
KernelOver(b, first, last) ==
    [i \in DOMAIN b |-> IF i >= first /\ i < last THEN Func(b[i]) ELSE b[i]]

\* C31: in for_each over a non-empty range the kernel is submitted only after
\* sync_to_device has returned, with the state no longer HostDirty; and
\* mark_device_dirty is called only after the kernel has completed, the
\* device buffer holding its results; on return the calls made are the sync,
\* the launch, the wait and mark_device_dirty in that order, the state is
\* DeviceDirty and the dirty set is empty.  Over an empty range for_each
\* makes no call and leaves state, dirty set and storage unchanged.
C31_BulkOrdering ==
    [][/\ op' = "launch" =>
            /\ thr.calls = <<"sync_to_device">>
            /\ Engine(1).state_ # "host_dirty"
       /\ (op' = "for_each" /\ thr'.first < thr'.last) =>
            /\ thr.calls = <<"sync_to_device", "launch", "wait">>
            /\ \A b \in thr.launched :
                  Engine(1).device_buffer_ = KernelOver(b, thr.first, thr.last)
            /\ vecs'[1].engine_.device_buffer_ = Engine(1).device_buffer_
            /\ vecs'[1].engine_.state_ = "device_dirty"
            /\ vecs'[1].engine_.dirty_ranges_ = << >>
       /\ (op' = "for_each" /\ thr'.first = thr'.last) =>
            /\ thr'.calls = << >>
            /\ vecs'[1] = V1
            /\ V1.engine_.log.copies = 0]_vars

\* for_each over both elements of a HostDirty container has returned: its
\* sync transferred the one dirty range before the kernel ran.
C31_Witness ==
    /\ op = "for_each"
    /\ thr.first = 0 /\ thr.last = 2
    /\ thr.calls = <<"sync_to_device", "launch", "wait", "mark_device_dirty">>
    /\ Engine(1).log.copies = 1
    /\ Engine(1).state_ = "device_dirty"
    /\ Ranges(1) = << >>

-----------------------------------------------------------------------------
(* SpecAlloc: two threads call get_device_buffer() on the engine of          *)
(* container 1 while its device buffer is not yet allocated, and a third     *)
(* party resizes the engine.  mutex_ is held shared by the threads in        *)
(* readers and exclusively by writer; each acquisition and each release of   *)
(* ensure_device_allocated is a step.  No step reads the new buffer, whose    *)
(* indeterminate contents are taken as 0.                                    *)

\* No call is in progress and mutex_ is free.  The engine's log is kept from
\* call to call: log.allocs counts the device buffers ensure_device_allocated
\* has created.
NoCalls == [pc |-> [t \in Threads |-> "idle"], writer |-> 0, readers |-> {}]

InitAlloc ==
    /\ \E l \in Lists(MaxCap) :
          vecs = [c \in Cont |-> IF c = 1 THEN unified_vector(l) ELSE unified_vector(<< >>)]
    /\ ref = [c \in Cont |-> vecs[c].engine_.host_data_]
    /\ thr = NoCalls
    /\ err = NoError
    /\ ret = NoValue
    /\ op = "construct"

\* Thread t moves to pc p; the engine of container 1 becomes e.
LockStep(name, t, p, e, w, rd) ==
    /\ vecs' = [vecs EXCEPT ![1].engine_ = e]
    /\ op' = name
    /\ thr' = [thr EXCEPT !.pc[t] = p, !.writer = w, !.readers = rd]
    /\ err' = NoError
    /\ ret' = NoValue
    /\ UNCHANGED ref

\* lock.unlock() by thread t, m the holders of the mutex: t holds it no more.
\* The unlock left out.
ReleasedMut(m, t) == m
Released(m, t) ==
    [writer |-> IF m.writer = t THEN 0 ELSE m.writer, readers |-> m.readers \ {t}]

\* The holders of mutex_ of container 1's engine.
Mutex1 == [writer |-> thr.writer, readers |-> thr.readers]

\* get_device_buffer(): std::shared_lock lock(mutex_), then
\* ensure_device_allocated reads device_allocated_.
GdbShared(t) ==
    /\ thr.pc[t] = "idle" /\ thr.writer = 0
    /\ LockStep("gdb_shared", t,
                IF Engine(1).device_allocated_ THEN "shared" ELSE "unlock",
                Engine(1), 0, thr.readers \cup {t})

\* ensure_device_allocated: lock.unlock().
GdbUnlock(t) ==
    /\ thr.pc[t] = "unlock"
    /\ LockStep("gdb_unlock", t, "upgrade", Engine(1),
                Released(Mutex1, t).writer, Released(Mutex1, t).readers)

\* ensure_device_allocated: std::unique_lock unique_lock(mutex_), the second
\* check of device_allocated_ and the allocation.
GdbUnique(t) ==
    /\ thr.pc[t] = "upgrade" /\ thr.writer = 0 /\ thr.readers = {}
    /\ LockStep("gdb_unique", t, "downgrade",
                ensure_device_allocated(Engine(1), NoGarbage), t, {})

\* ensure_device_allocated: lock = std::shared_lock(std::move(unique_lock)),
\* the exclusive ownership becoming a shared one.
GdbDowngrade(t) ==
    /\ thr.pc[t] = "downgrade"
    /\ LockStep("gdb_downgrade", t, "shared", Engine(1), 0, thr.readers \cup {t})

\* The same, as a release of the exclusive lock followed by an acquisition of
\* the shared one.
GdbRelease(t) ==
    /\ thr.pc[t] = "downgrade"
    /\ LockStep("gdb_release", t, "reacquire", Engine(1), 0, thr.readers)

GdbReacquire(t) ==
    /\ thr.pc[t] = "reacquire" /\ thr.writer = 0
    /\ LockStep("gdb_reacquire", t, "shared", Engine(1), 0, thr.readers \cup {t})

\* get_device_buffer(): return device_buffer_, the shared lock released.
GdbReturn(t) ==
    /\ thr.pc[t] = "shared"
    /\ LockStep("get_device_buffer", t, "back", Engine(1), thr.writer, thr.readers \ {t})

\* The thread calls again.
GdbAgain(t) ==
    /\ thr.pc[t] = "back"
    /\ LockStep("again", t, "idle", Engine(1), thr.writer, thr.readers)

\* resize(new_capacity) by another caller: the exclusive lock taken, resize_impl,
\* the lock released.
ResizeLocked ==
    /\ thr.writer = 0 /\ thr.readers = {}
    /\ \E n \in (Engine(1).capacity_ + 1)..MaxCap :
       \E gh \in HostGarbage(Engine(1), n) : \E gd \in DeviceGarbage(Engine(1), n) :
          /\ vecs' = [vecs EXCEPT ![1].engine_ =
                         [resize_impl(Engine(1), n, gh, gd) EXCEPT !.log = Engine(1).log]]
          /\ op' = "resize"
          /\ err' = NoError
          /\ ret' = NoValue
          /\ UNCHANGED <<ref, thr>>

NextAlloc ==
    \/ \E t \in Threads : GdbShared(t)
    \/ \E t \in Threads : GdbUnlock(t)
    \/ \E t \in Threads : GdbUnique(t)
    \/ \E t \in Threads : GdbDowngrade(t)
    \/ \E t \in Threads : GdbRelease(t)
    \/ \E t \in Threads : GdbReacquire(t)
    \/ \E t \in Threads : GdbReturn(t)
    \/ \E t \in Threads : GdbAgain(t)
    \/ ResizeLocked

SpecAlloc == InitAlloc /\ [][NextAlloc]_vars

\* C32: whatever the interleaving of the two first requests, the device
\* buffer is allocated by ensure_device_allocated at most once, with the
\* capacity that is current when it is allocated, and a thread that has
\* reached the return of get_device_buffer() finds it allocated (so it was
\* allocated exactly once).
C32_AllocatedOnce ==
    [][LET e == vecs'[1].engine_
       IN  /\ e.log.allocs <= 1
           /\ e.log.allocs > Engine(1).log.allocs =>
                  /\ DOMAIN e.device_buffer_ = 0..(Engine(1).capacity_ - 1)
                  /\ e.capacity_ = Engine(1).capacity_
           /\ \A t \in Threads :
                  thr'.pc[t] \in {"shared", "back"} =>
                     (e.device_allocated_ /\ e.log.allocs = 1)]_vars

\* Both threads have returned from get_device_buffer() and the one buffer
\* ensure_device_allocated created has the capacity 2 of that moment.
C32_Witness ==
    /\ op = "get_device_buffer"
    /\ \A t \in Threads : thr.pc[t] = "back"
    /\ Engine(1).log.allocs = 1
    /\ Engine(1).capacity_ = 2
    /\ DOMAIN Engine(1).device_buffer_ = 0..1

-----------------------------------------------------------------------------
(* SpecLive: two threads each make one call of the engine of container 1,   *)
(* concurrently: sync_to_device, sync_to_host, resize, mark_host_dirty,      *)
(* mark_device_dirty, get_device_buffer, or a move assignment between the    *)
(* engines of containers 1 and 2, thread 1 into engine 1 and thread 2 into   *)
(* engine 2.  When both have returned they are joined and started again.     *)
(* Every acquisition of a mutex is a step that waits until the mutex can be  *)
(* taken; the scheduler is fair to each thread and every transfer of the     *)
(* backend completes.                                                        *)

\* other: the thread holding the mutex_ of container 2's engine; call: the
\* call each thread is in or has returned from; lazy: a sync_to_device that
\* allocated the device buffer has returned.
NoCallsLive ==
    [pc |-> [t \in Threads |-> "idle"], writer |-> 0, readers |-> {},
     other |-> 0, call |-> [t \in Threads |-> "none"], lazy |-> FALSE]

\* Container 1 is constructed with n elements 0, container 2 is empty.
InitLive ==
    /\ \E n \in 0..MaxCap :
          vecs = [c \in Cont |->
                     IF c = 1 THEN unified_vector([i \in 0..(n - 1) |-> 0])
                     ELSE unified_vector(<< >>)]
    /\ ref = [c \in Cont |-> vecs[c].engine_.host_data_]
    /\ thr = NoCallsLive
    /\ err = NoError
    /\ ret = NoValue
    /\ op = "construct"

\* Thread t moves to pc p in call c, the containers become vs, mutex_ of
\* engine 1 is held as m and mutex_ of engine 2 by o.
LiveStep(name, t, p, c, vs, m, o) ==
    /\ vecs' = [k \in Cont |-> Begin(vs[k])]
    /\ op' = name
    /\ thr' = [thr EXCEPT
                  !.pc[t] = p,
                  !.call[t] = c,
                  !.writer = m.writer,
                  !.readers = m.readers,
                  !.other = o,
                  !.lazy = @ \/ name = "sync_lazy"]
    /\ err' = NoError
    /\ ret' = NoValue
    /\ UNCHANGED ref

\* Container 1 with its engine replaced by e.
WithEngine(e) == [vecs EXCEPT ![1].engine_ = e]

\* The calls that take mutex_ exclusively on entry.
ExclusiveCalls ==
    {"sync_to_device", "sync_to_host", "resize", "mark_host_dirty", "mark_device_dirty"}

\* The engine of container 2 holds nothing: it is as constructed, or moved
\* from.  Calls other than the moves are started on engine 1 while it is so.
SoleEngine == vecs[2].engine_ = versioning_engine(0, NoGarbage)

\* std::unique_lock<std::shared_mutex> lock(mutex_) at the start of a call.
ExclLock(t) ==
    /\ thr.pc[t] = "idle" /\ thr.writer = 0 /\ thr.readers = {}
    /\ SoleEngine
    /\ \E c \in ExclusiveCalls :
          LiveStep("lock", t, "locked", c, vecs, [writer |-> t, readers |-> {}], thr.other)

\* sync_to_device_impl finds HostDirty and no device buffer.
SyncAllocates(t) ==
    /\ thr.call[t] = "sync_to_device"
    /\ Engine(1).state_ = "host_dirty"
    /\ ~Engine(1).device_allocated_

\* What the body of call c may make of the engine e.
Bodies(c, e) ==
    CASE c = "sync_to_device" -> {sync_to_device_impl(e, NoGarbage)}
      [] c = "sync_to_host" -> {sync_to_host_impl(e)}
      [] c = "resize" ->
            {resize_impl(e, n, gh, gd) :
                n \in {e.capacity_, Min2(e.capacity_ + 1, MaxCap)},
                gh \in {NoGarbage}, gd \in {NoGarbage}}
      [] c = "mark_host_dirty" ->
            {mark_host_dirty_impl(e, 0, e.capacity_)}
      [] c = "mark_device_dirty" -> {mark_device_dirty_impl(e)}

\* The body of the call runs with the lock held, and the lock is released on
\* return.
ExclReturn(t) ==
    /\ thr.pc[t] = "locked" /\ ~SyncAllocates(t)
    /\ \E e \in Bodies(thr.call[t], Engine(1)) :
          LiveStep(thr.call[t], t, "back", thr.call[t], WithEngine(e),
                   Released(Mutex1, t), thr.other)

\* sync_to_device_impl, ensure_device_allocated(lock): lock.unlock() on the
\* lock of the caller.
SyncUnlock(t) ==
    /\ thr.pc[t] = "locked" /\ SyncAllocates(t)
    /\ LiveStep("sync_unlock", t, "s_upgrade", thr.call[t], vecs,
                Released(Mutex1, t), thr.other)

\* ensure_device_allocated: the exclusive lock taken again, the second check
\* and the allocation.
SyncUnique(t) ==
    /\ thr.pc[t] = "s_upgrade" /\ thr.writer = 0 /\ thr.readers = {}
    /\ LiveStep("sync_unique", t, "s_copy", thr.call[t],
                WithEngine(ensure_device_allocated(Engine(1), NoGarbage)),
                [writer |-> t, readers |-> {}], thr.other)

\* ensure_device_allocated: the exclusive ownership becomes a shared one.
SyncDowngrade(t) ==
    /\ thr.pc[t] = "s_copy" /\ thr.writer = t
    /\ LiveStep("sync_downgrade", t, "s_copy", thr.call[t], vecs,
                [writer |-> 0, readers |-> thr.readers \cup {t}], thr.other)

\* sync_to_device_impl past ensure_device_allocated: the copies, the wait, the
\* tracker cleared and Clean stored; the lock released on return.
SyncReturn(t) ==
    /\ thr.pc[t] = "s_copy"
    /\ LiveStep("sync_lazy", t, "back", thr.call[t],
                WithEngine(sync_to_device_copy(Engine(1), NoGarbage)),
                Released(Mutex1, t), thr.other)

\* this = std::move(other) on the engines: the destination takes the source's
\* fields and the source is left with capacity 0, no device buffer and Clean.
engine_move_assign(vs, cdst, csrc) ==
    [vs EXCEPT ![cdst].engine_ = vs[csrc].engine_,
               ![csrc].engine_ = versioning_engine(0, NoGarbage)]

\* operator=(versioning_engine&&): std::lock(lock1, lock2) returns with both
\* mutexes held; it blocks while either is held by another thread, holding
\* neither.
MoveLock(t) ==
    /\ thr.pc[t] = "idle"
    /\ thr.writer = 0 /\ thr.readers = {} /\ thr.other = 0
    /\ LiveStep("move_lock", t, "moving", "move_assign", vecs,
                [writer |-> t, readers |-> {}], t)

\* operator=(versioning_engine&&): the fields move and both locks are released.
MoveReturn(t) ==
    /\ thr.pc[t] = "moving"
    /\ LiveStep("move_assign", t, "back", thr.call[t],
                engine_move_assign(vecs, t, 3 - t), Released(Mutex1, t), 0)

\* Both threads have returned: they are joined, and started again.
Join ==
    /\ \A t \in Threads : thr.pc[t] = "back"
    /\ thr' = [thr EXCEPT !.pc = [t \in Threads |-> "idle"],
                          !.call = [t \in Threads |-> "none"]]
    /\ op' = "join"
    /\ UNCHANGED <<vecs, ref, err, ret>>

\* The steps of thread t.
LiveThread(t) ==
    \/ ExclLock(t)
    \/ ExclReturn(t)
    \/ SyncUnlock(t)
    \/ SyncUnique(t)
    \/ SyncDowngrade(t)
    \/ SyncReturn(t)
    \/ MoveLock(t)
    \/ MoveReturn(t)
    \/ SoleEngine /\ GdbShared(t)
    \/ GdbUnlock(t)
    \/ GdbUnique(t)
    \/ GdbDowngrade(t)
    \/ GdbRelease(t)
    \/ GdbReacquire(t)
    \/ GdbReturn(t)

NextLive ==
    \/ \E t \in Threads : LiveThread(t)
    \/ Join

SpecLive == InitLive /\ [][NextLive]_vars /\ \A t \in Threads : WF_vars(LiveThread(t))

\* C33: a thread that is inside a call of the engine eventually returns from
\* it, whatever the other thread does.
C33_Termination ==
    \A t \in Threads : (thr.pc[t] \notin {"idle", "back"}) ~> (thr.pc[t] = "back")

\* Both threads have returned from move assignments in opposite directions,
\* after a sync_to_device that allocated the device buffer had returned.
C33_Witness ==
    /\ \A t \in Threads : thr.pc[t] = "back" /\ thr.call[t] = "move_assign"
    /\ thr.lazy
    /\ op = "move_assign"
    /\ thr.writer = 0 /\ thr.readers = {} /\ thr.other = 0

-----------------------------------------------------------------------------
(* SpecIsolated: container 1 grows by push_back while container 2 is empty;  *)
(* container 2 is made a copy of it; then both are written through the      *)
(* proxy, and the copy is prefetched to the device.                          *)

NextIsolated ==
    \/ Sole /\ PushBack(1)
    \/ CopyConstruct(2, 1)
    \/ CopyAssign(2, 1)
    \/ \E c \in Cont : Set(c)
    \/ Prefetch(2)

SpecIsolated == InitOne /\ [][NextIsolated]_vars

\* The operations that take two containers.
TwoContainerOps == {"copy_construct", "copy_assign", "self_assign"}

-----------------------------------------------------------------------------
(* Claim 35, under Spec *)

\* C35: in every state the container's operations reach, a Clean container
\* has an empty dirty-range set and a HostDirty container a non-empty one.
C35_StateMatchesDirtySet ==
    \A c \in Cont :
        /\ Engine(c).state_ = "clean" => Len(Engine(c).dirty_ranges_) = 0
        /\ Engine(c).state_ = "host_dirty" => Len(Engine(c).dirty_ranges_) > 0

-----------------------------------------------------------------------------
(* Claim 36, under Spec *)

\* C36: when an operation that writes no element below the old size (reserve,
\* push_back, emplace_back, a growing resize) makes the capacity of container
\* 1 grow while it is Clean or HostDirty, every host element below the size
\* before the growth has the same value after it; insert keeps the elements
\* below the old size that it does not shift or write, those before the
\* first one written.
C36_GrowthKeepsHostData ==
    [][(/\ vecs'[1].engine_.capacity_ > Engine(1).capacity_
        /\ Engine(1).state_ \in {"clean", "host_dirty"}
        /\ op' \in {"reserve", "push_back", "emplace_back", "resize", "insert"}) =>
          \A i \in 0..(vecs[1].size_ - 1) :
              (op' = "insert" => \A j \in 0..i : j \notin vecs'[1].engine_.marked) =>
                  vecs'[1].engine_.host_data_[i] = Engine(1).host_data_[i]]_vars

-----------------------------------------------------------------------------
(* SpecMarks: mark_host_dirty called with valid non-empty ranges on an       *)
(* empty tracker, with the multiset of the ranges marked so far kept beside. *)

\* Capacity of the buffer of SpecMarks.
MarksCap == 5

\* Most calls of mark_host_dirty in a run of SpecMarks.
MaxMarks == 3

\* The valid non-empty ranges of the buffer.
ValidRanges ==
    UNION {{dirty_range(s, t) : t \in (s + 1)..MarksCap} : s \in 0..(MarksCap - 1)}

\* The multiset of no ranges, and the number of ranges in a multiset.
NoMarks == [r \in ValidRanges |-> 0]

RECURSIVE CountOver(_, _)
CountOver(b, rs) ==
    IF rs = {} THEN 0
    ELSE LET r == CHOOSE q \in rs : TRUE
         IN  b[r] + CountOver(b, rs \ {r})

MarkCount(b) == CountOver(b, ValidRanges)

InitMarks ==
    /\ vecs = [c \in Cont |->
                 IF c = 1 THEN unified_vector([i \in 0..(MarksCap - 1) |-> 0])
                 ELSE unified_vector(<< >>)]
    /\ ref = [c \in Cont |-> vecs[c].engine_.host_data_]
    /\ thr = [marks |-> NoMarks, last |-> dirty_range(0, 0)]
    /\ err = NoError
    /\ ret = NoValue
    /\ op = "construct"

\* mark_host_dirty(s, t) with 0 <= s < t <= capacity.
MarkValid ==
    \E r \in ValidRanges :
        /\ MarkCount(thr.marks) < MaxMarks
        /\ vecs' = [vecs EXCEPT ![1].engine_ = mark_host_dirty_impl(E1, r.start, r.end)]
        /\ thr' = [marks |-> [thr.marks EXCEPT ![r] = @ + 1], last |-> r]
        /\ op' = "mark_host_dirty"
        /\ err' = NoError
        /\ ret' = NoValue
        /\ UNCHANGED ref

NextMarks == MarkValid

SpecMarks == InitMarks /\ [][NextMarks]_vars

\* r comes before q in the order by start, then by end.
RangeBefore(r, q) == r.start < q.start \/ (r.start = q.start /\ r.end <= q.end)

\* The ranges of a multiset marked one after the other in that order.
RECURSIVE MarkSorted(_, _)
MarkSorted(e, b) ==
    LET left == {r \in ValidRanges : b[r] > 0}
    IN  IF left = {} THEN e
        ELSE LET r == CHOOSE q \in left : \A p \in left : RangeBefore(q, p)
             IN  MarkSorted(mark_host_dirty_impl(e, r.start, r.end),
                            [b EXCEPT ![r] = @ - 1])

\* The tracked ranges as a set.
TrackedSet(e) == {e.dirty_ranges_[k] : k \in 1..Len(e.dirty_ranges_)}

\* C37: the set of tracked ranges depends on the multiset of the valid
\* non-empty ranges marked from the empty tracker and not on the order of the
\* calls: whatever order a run took, the set it ends with is the set that
\* marking the same multiset in the order by (start, end) ends with.
C37_OrderIndependent ==
    TrackedSet(Engine(1)) =
        TrackedSet(MarkSorted(versioning_engine(MarksCap, NoGarbage), thr.marks))

\* Three calls whose last one was the first in the order by (start, end) and
\* bridged two ranges tracked apart before it.
C37_Witness ==
    /\ op = "mark_host_dirty"
    /\ MarkCount(thr.marks) = 3
    /\ thr.marks[dirty_range(2, 3)] = 1
    /\ thr.marks[dirty_range(4, 5)] = 1
    /\ thr.last = dirty_range(1, 4)
    /\ TrackedSet(Engine(1)) = {dirty_range(1, 5)}

-----------------------------------------------------------------------------
(* SpecFrame: the operations that change the size or the capacity, on a      *)
(* container taken through host writes and bulk operations.                  *)

NextFrame ==
    \/ EngineResize
    \/ PopBack(1)
    \/ Resize(1)
    \/ PushBack(1)
    \/ Set(1)
    \/ ForEach(1)

SpecFrame == InitOne /\ [][NextFrame]_vars

\* The container without the record of the calls of its last operation.
Fields(v) == [v EXCEPT !.engine_.log = NoLog]

\* C38: the engine's resize(n), for any n, leaves the coherence state and
\* the dirty-range set as they were; pop_back and a container resize to a
\* size not above the current one leave state, dirty set and capacity as they
\* were; pop_back on an empty container changes nothing at all.
C38_SizeChangeFrame ==
    [][LET e == Engine(1)
           f == vecs'[1].engine_
       IN  /\ op' = "engine_resize" =>
                 f.state_ = e.state_ /\ f.dirty_ranges_ = e.dirty_ranges_
           /\ (op' = "pop_back" \/ (op' = "resize" /\ vecs'[1].size_ <= vecs[1].size_)) =>
                 /\ f.state_ = e.state_
                 /\ f.dirty_ranges_ = e.dirty_ranges_
                 /\ f.capacity_ = e.capacity_
           /\ (op' = "pop_back" /\ vecs[1].size_ = 0) =>
                 Fields(vecs'[1]) = Fields(vecs[1])]_vars

\* The engine resized to a larger capacity while the device held the
\* current data and ranges were tracked.
C38_Witness ==
    /\ op = "engine_resize"
    /\ Engine(1).capacity_ = MaxCap
    /\ Engine(1).log.allocs = 1
    /\ Engine(1).state_ = "device_dirty"
    /\ Len(Engine(1).dirty_ranges_) > 0

-----------------------------------------------------------------------------
(* C39: moves and swap, taken in SpecOwn.                                    *)

\* Container a now is what container b was before the step: state, dirty
\* set, capacity, size, and the elements on the host and on the device.
Took(a, b) ==
    /\ a.engine_.state_ = b.engine_.state_
    /\ a.engine_.dirty_ranges_ = b.engine_.dirty_ranges_
    /\ a.engine_.capacity_ = b.engine_.capacity_
    /\ a.size_ = b.size_
    /\ a.engine_.host_data_ = b.engine_.host_data_
    /\ a.engine_.device_buffer_ = b.engine_.device_buffer_

\* What a move leaves behind.
LeftEmpty(a) ==
    /\ a.size_ = 0
    /\ a.engine_.capacity_ = 0
    /\ a.engine_.state_ = "clean"
    /\ Len(a.engine_.dirty_ranges_) = 0
    /\ ~a.engine_.device_allocated_

\* C39: after a move construction (container 2 from container 1) or a move
\* assignment (container 1 from container 2) the destination has the
\* source's former state, dirty set, capacity, size and element values and
\* the source has size 0, capacity 0, state clean, no dirty range and no
\* device buffer; swap exchanges all of these between the two containers.
C39_MoveAndSwap ==
    [][/\ op' = "move_construct" => Took(vecs'[2], vecs[1]) /\ LeftEmpty(vecs'[1])
       /\ op' = "move_assign" => Took(vecs'[1], vecs[2]) /\ LeftEmpty(vecs'[2])
       /\ op' = "swap" => Took(vecs'[1], vecs[2]) /\ Took(vecs'[2], vecs[1])]_vars

\* A move assignment whose source held device-dirty data for a full
\* container with a device buffer.
C39_Witness ==
    /\ op = "move_assign"
    /\ vecs[1].size_ = MaxCap
    /\ Engine(1).state_ = "device_dirty"
    /\ Engine(1).device_allocated_
    /\ Len(Engine(1).dirty_ranges_) > 0
    /\ LeftEmpty(vecs[2])

-----------------------------------------------------------------------------
(* C40: the tracked ranges, in SpecInvalid.                                  *)

\* C40: in every reachable state each tracked dirty range is non-empty and
\* lies inside the buffer: start < end <= capacity.
C40_RangesInsideBuffer ==
    \A c \in Cont : \A k \in 1..Len(Engine(c).dirty_ranges_) :
        LET r == Engine(c).dirty_ranges_[k]
        IN  r.start < r.end /\ r.end <= Engine(c).capacity_

====
